---- MODULE Spec2Model ----
(***************************************************************************)
(* State-machine model of the Sonnet 5 checker backend:                    *)
(*   backend/src/sources.ts        classifier, four adapters, aggregator   *)
(*   backend/src/index.ts          scheduler (performCheck) and routes     *)
(*   backend/src/notifications.ts  notifier latch and the two channels     *)
(* A JavaScript string is carried in the state as a TLA+ string; Chars     *)
(* gives its sequence of characters wherever the code inspects it.         *)
(***************************************************************************)
EXTENDS Integers, Sequences, FiniteSets, TLC

(***************************************************************************)
(* Bounds of the model.                                                    *)
(***************************************************************************)
\* The clock (new Date()) runs from 0 to MaxTime.
MaxTime == 1

\* History counters saturate at MaxCount.
MaxCount == 2

\* The texts given to the classifier are made of at most MaxTokens tokens.
MaxTokens == 3

(***************************************************************************)
(* JavaScript values.                                                      *)
(***************************************************************************)
\* null, as in model: string | null
Null == "null"

\* A text of n characters that begins with "Sonnet-5 " and goes on with words
\* of no interest.
Fragment(n) ==
  [k \in 1..n |->
     IF k <= 9 THEN <<"S","o","n","n","e","t","-","5"," ">>[k]
     ELSE IF k % 5 = 0 /\ k < n THEN " " ELSE "x"]

\* <p> ... </p> around a fragment.
Paragraph(text) == <<"<","p",">">> \o text \o <<"<","/","p",">">>

\* The strings the modelled upstreams can put in a field the code reads.
Chars(s) ==
  CASE s = "" ->
         << >>
    [] s = "undefined" ->
         <<"u","n","d","e","f","i","n","e","d">>
    [] s = "claude-opus-4" ->
         <<"c","l","a","u","d","e","-","o","p","u","s","-","4">>
    [] s = "Claude Opus 4" ->
         <<"C","l","a","u","d","e"," ","O","p","u","s"," ","4">>
    [] s = "claude-3-5-sonnet" ->
         <<"c","l","a","u","d","e","-","3","-","5","-","s","o","n","n","e",
           "t">>
    [] s = "Claude 3.5 Sonnet" ->
         <<"C","l","a","u","d","e"," ","3",".","5"," ","S","o","n","n","e",
           "t">>
    [] s = "claude-sonnet-5-preview" ->
         <<"c","l","a","u","d","e","-","s","o","n","n","e","t","-","5","-",
           "p","r","e","v","i","e","w">>
    [] s = "Claude Sonnet 5" ->
         <<"C","l","a","u","d","e"," ","S","o","n","n","e","t"," ","5">>
    [] s = "Anthropic ships Sonnet-5" ->
         <<"A","n","t","h","r","o","p","i","c"," ","s","h","i","p","s"," ",
           "S","o","n","n","e","t","-","5">>
    [] s = "Claude 4.5 Sonnet review" ->
         <<"C","l","a","u","d","e"," ","4",".","5"," ","S","o","n","n","e",
           "t"," ","r","e","v","i","e","w">>
    [] s = "v1.0" ->
         <<"v","1",".","0">>
    [] s = "Add claude-sonnet-5" ->
         <<"A","d","d"," ","c","l","a","u","d","e","-","s","o","n","n","e",
           "t","-","5">>
    [] s = "fix typo" ->
         <<"f","i","x"," ","t","y","p","o">>
    [] s = "add sonnet-5 to the model list" ->
         <<"a","d","d"," ","s","o","n","n","e","t","-","5"," ","t","o"," ",
           "t","h","e"," ","m","o","d","e","l"," ","l","i","s","t">>
    [] s = "<h1>Claude Sonnet-5</h1>" ->
         <<"<","h","1",">","C","l","a","u","d","e"," ","S","o","n","n","e",
           "t","-","5","<","/","h","1",">">>
    [] s = "<p>News &amp; more</p>" ->
         <<"<","p",">","N","e","w","s"," ","&","a","m","p",";"," ","m","o",
           "r","e","<","/","p",">">>
    [] s = "<p>Claude 3.5 Sonnet</p>" ->
         <<"<","p",">","C","l","a","u","d","e"," ","3",".","5"," ","S","o",
           "n","n","e","t","<","/","p",">">>
    [] s = "<p>Sonnet-5 ...(150)</p>" ->
         Paragraph(Fragment(150))
    [] s = "<p>Sonnet-5 ...(199)</p>" ->
         Paragraph(Fragment(199))
    [] s = "<p>Sonnet-5 ...(200)</p>" ->
         Paragraph(Fragment(200))
    [] s = "<p>Sonnet-5 ...(250)</p>" ->
         Paragraph(Fragment(250))
    [] s = "<p>  Sonnet-5 ...(196)&nbsp;  </p>" ->
         Paragraph(<<" "," ">> \o Fragment(196) \o <<"&","n","b","s","p",";"," "," ">>)

(***************************************************************************)
(* sources.ts: the classifier.  A pattern is a sequence of elements; an    *)
(* element is a set of (lower-case) characters, optional or not.  Every    *)
(* pattern of the source is \b ... \b with the flag i.                     *)
(***************************************************************************)
LowerOf ==
  [A |-> "a", B |-> "b", C |-> "c", D |-> "d", E |-> "e", F |-> "f", G |-> "g",
   H |-> "h", I |-> "i", J |-> "j", K |-> "k", L |-> "l", M |-> "m", N |-> "n",
   O |-> "o", P |-> "p", Q |-> "q", R |-> "r", S |-> "s", T |-> "t", U |-> "u",
   V |-> "v", W |-> "w", X |-> "x", Y |-> "y", Z |-> "z"]

\* A comparison of characters without the flag i.
CaseSensitive(ch) == ch

\* Case folding of the flag i.
Lower(ch) == IF ch \in DOMAIN LowerOf THEN LowerOf[ch] ELSE ch

Digits == {"0","1","2","3","4","5","6","7","8","9"}

\* \w of a JavaScript regular expression: [A-Za-z0-9_]
WordChars ==
  (DOMAIN LowerOf) \cup {LowerOf[c] : c \in DOMAIN LowerOf} \cup Digits \cup {"_"}

IsWordAt(text, i) == i \in 1..Len(text) /\ text[i] \in WordChars

\* \b before position i (i in 1..Len+1): exactly one side is a word character.
Boundary(text, i) == IsWordAt(text, i - 1) # IsWordAt(text, i)

\* A literal string of a pattern.
Lit(s) == [k \in 1..Len(s) |-> [cs |-> {s[k]}, opt |-> FALSE]]

\* [-_]?
OptSep == << [cs |-> {"-", "_"}, opt |-> TRUE] >>

\* [-_.]?
OptSepDot == << [cs |-> {"-", "_", "."}, opt |-> TRUE] >>

CLAUDE == Lit(<<"c","l","a","u","d","e">>)

SONNET == Lit(<<"s","o","n","n","e","t">>)

SONNET_5_PATTERNS ==
  << CLAUDE \o OptSep \o Lit(<<"5">>) \o OptSep \o SONNET,
     SONNET \o OptSep \o Lit(<<"5">>),
     CLAUDE \o OptSep \o SONNET \o OptSep \o Lit(<<"5">>),
     CLAUDE \o OptSep \o Lit(<<"5">>) >>

EXCLUDE_PATTERNS ==
  << CLAUDE \o OptSep \o Lit(<<"3">>) \o OptSepDot \o Lit(<<"5">>) \o OptSep \o SONNET,
     CLAUDE \o OptSep \o Lit(<<"4">>) \o OptSepDot \o Lit(<<"5">>) \o OptSep \o SONNET,
     SONNET \o OptSep \o Lit(<<"3">>) \o OptSepDot \o Lit(<<"5">>),
     SONNET \o OptSep \o Lit(<<"4">>) \o OptSepDot \o Lit(<<"5">>),
     Lit(<<"3", ".", "5">>) \o OptSep \o SONNET,
     Lit(<<"4", ".", "5">>) \o OptSep \o SONNET,
     CLAUDE \o OptSep \o Lit(<<"3">>) \o OptSepDot \o Lit(<<"5">>) >>

\* The positions at which a match of pat[j..] begun at text[i] can end.
RECURSIVE MatchEnds(_, _, _, _)
MatchEnds(text, i, pat, j) ==
  IF j > Len(pat) THEN {i}
  ELSE (IF i <= Len(text) /\ Lower(text[i]) \in pat[j].cs
          THEN MatchEnds(text, i + 1, pat, j + 1) ELSE {})
       \cup (IF pat[j].opt THEN MatchEnds(text, i, pat, j + 1) ELSE {})

\* RegExp.prototype.test for /\b<pat>\b/i
RegexTest(pat, text) ==
  \E i \in 1..(Len(text) + 1) :
     /\ Boundary(text, i)
     /\ \E k \in MatchEnds(text, i, pat, 1) : Boundary(text, k)

\* A classifier that tries the inclusion patterns first.
isSonnet5InclusionFirst(text) ==
  IF \E p \in 1..Len(SONNET_5_PATTERNS) : RegexTest(SONNET_5_PATTERNS[p], text)
    THEN TRUE
    ELSE FALSE

isSonnet5(text) ==
  IF \E e \in 1..Len(EXCLUDE_PATTERNS) : RegexTest(EXCLUDE_PATTERNS[e], text)
    THEN FALSE
    ELSE \E p \in 1..Len(SONNET_5_PATTERNS) : RegexTest(SONNET_5_PATTERNS[p], text)

(***************************************************************************)
(* sources.ts: CheckResult and the values a promise settles with.          *)
(***************************************************************************)
CheckResult(found, model, source) ==
  [found |-> found, model |-> model, source |-> source]

\* { found: false, model: null, source: null }
NotFound == CheckResult(FALSE, Null, Null)

Fulfilled(v) == [status |-> "fulfilled", value |-> v]

\* A promise rejected by an error that left the function.
Rejected == [status |-> "rejected", value |-> NotFound]

\* x || dflt for a string field that may be missing (undefined).
OrElse(x, dflt) == IF x = Null \/ x = "" THEN dflt ELSE x

\* `${x}` for a field that may be missing (undefined).
Interpolate(x) == IF x = Null THEN "undefined" ELSE x

\* The least element of a non-empty set of indices: the first hit of a for loop.
First(S) == CHOOSE k \in S : \A m \in S : k <= m

(***************************************************************************)
(* sources.ts: the Structured-API adapter.  A response of the catalog      *)
(* endpoint is [kind, status, etag, payload, models]: kind "neterr" is a   *)
(* fetch that throws, payload "bad" a body on which response.json() or the *)
(* loop over data.data throws.                                             *)
(***************************************************************************)
ApiUrl == "https://api.anthropic.com/v1/models"

ApiResponse(kind, status, etag, payload, models) ==
  [kind |-> kind, status |-> status, etag |-> etag, payload |-> payload,
   models |-> models]

ModelEntry(id, display_name) == [id |-> id, display_name |-> display_name]

\* The loop of lines 78-90: the first entry whose id or display name matches.
ApiHits(models) ==
  {k \in 1..Len(models) :
     \/ isSonnet5(Chars(OrElse(models[k].id, "")))
     \/ isSonnet5(Chars(OrElse(models[k].display_name, "")))}

\* A classification that names the first entry of the catalog when nothing
\* matches.
ClassifyModelsNamingFirst(models) ==
  IF ApiHits(models) = {}
    THEN CheckResult(FALSE, IF models = << >> THEN Null ELSE OrElse(models[1].id, ""),
                     Null)
    ELSE CheckResult(TRUE, OrElse(models[First(ApiHits(models))].id, ""), ApiUrl)

\* A classification that sets no source.
ClassifyModelsNoSource(models) ==
  IF ApiHits(models) = {} THEN NotFound
  ELSE CheckResult(TRUE, OrElse(models[First(ApiHits(models))].id, ""), Null)

\* A classification that reports the display name as the model.
ClassifyModelsByName(models) ==
  IF ApiHits(models) = {} THEN NotFound
  ELSE CheckResult(TRUE, OrElse(models[First(ApiHits(models))].display_name, ""),
                   ApiUrl)

ClassifyModels(models) ==
  IF ApiHits(models) = {} THEN NotFound
  ELSE CheckResult(TRUE, OrElse(models[First(ApiHits(models))].id, ""), ApiUrl)

\* Entity tags of the catalog endpoint, and the catalog each identifies.
Tags == {"etag-a", "etag-b"}

Catalog(tag) ==
  IF tag = "etag-a"
    THEN << ModelEntry("claude-opus-4", "Claude Opus 4"),
            ModelEntry("claude-3-5-sonnet", "Claude 3.5 Sonnet") >>
    ELSE << ModelEntry("claude-opus-4", "Claude Opus 4"),
            ModelEntry("claude-sonnet-5-preview", "Claude Sonnet 5") >>

\* ClassifyModels on the catalogs of the model, worked out once.
Catalogs == {<< >>} \cup {Catalog(t) : t \in Tags}

ClassifyTable == [models \in Catalogs |-> ClassifyModels(models)]

\* The settled promise and the cache (lastEtag, lastApiResult) it leaves.
ApiOutcome(settled, etag, cached) ==
  [settled |-> settled, lastEtag |-> etag, lastApiResult |-> cached]

checkAnthropicAPI(keySet, etag, cached, resp) ==
  LET newEtag == IF resp.etag # Null THEN resp.etag ELSE etag IN
  IF ~keySet THEN ApiOutcome(Fulfilled(NotFound), etag, cached)
  ELSE IF resp.kind = "neterr" THEN ApiOutcome(Fulfilled(NotFound), etag, cached)
  ELSE IF resp.status = 304 THEN ApiOutcome(Fulfilled(cached), etag, cached)
  ELSE IF resp.status \notin 200..299
         THEN ApiOutcome(Fulfilled(NotFound), newEtag, cached)
  ELSE IF resp.payload = "bad"
         THEN ApiOutcome(Fulfilled(NotFound), newEtag, cached)
  ELSE ApiOutcome(Fulfilled(ClassifyTable[resp.models]), newEtag,
                  ClassifyTable[resp.models])

(***************************************************************************)
(* sources.ts: the Web-Page adapter.  A page response is [kind, ok, html]; *)
(* pages is one response per listed URL, read only as far as the loop gets.*)
(***************************************************************************)
WebUrls ==
  << "https://www.anthropic.com/news",
     "https://www.anthropic.com/claude",
     "https://docs.anthropic.com/en/release-notes/overview" >>

\* cleaned.length < 200
MaxFragmentLength == 200

PageResponse(kind, ok, html) == [kind |-> kind, ok |-> ok, html |-> html]

\* html.split(/[<>]/)
RECURSIVE SplitFrom(_, _)
SplitFrom(text, i) ==
  LET cuts == {k \in i..Len(text) : text[k] \in {"<", ">"}} IN
  IF cuts = {} THEN << SubSeq(text, i, Len(text)) >>
  ELSE << SubSeq(text, i, First(cuts) - 1) >> \o SplitFrom(text, First(cuts) + 1)

SplitAngle(text) == SplitFrom(text, 1)

\* line.replace(/&[^;]+;/g, " "): from index i on, the next "&" that is
\* followed by a character other than ";" and later by a ";" is replaced, up to
\* the first such ";".
RECURSIVE ReplaceFrom(_, _)
ReplaceFrom(text, i) ==
  LET starts == {k \in i..Len(text) :
                   /\ text[k] = "&"
                   /\ k + 1 <= Len(text)
                   /\ text[k + 1] # ";"
                   /\ \E m \in (k + 2)..Len(text) : text[m] = ";"} IN
  IF starts = {} THEN SubSeq(text, i, Len(text))
  ELSE LET k == First(starts)
           semis == {m \in (k + 2)..Len(text) : text[m] = ";"}
       IN  SubSeq(text, i, k - 1) \o << " " >> \o ReplaceFrom(text, First(semis) + 1)

ReplaceEntities(text) == ReplaceFrom(text, 1)

WhiteSpace == {" ", "\t", "\n", "\r"}

\* String.prototype.trim
Trim(text) ==
  LET keep == {k \in 1..Len(text) : text[k] \notin WhiteSpace} IN
  IF keep = {} THEN << >>
  ELSE SubSeq(text, First(keep), CHOOSE k \in keep : \A m \in keep : m <= k)

Cleaned(line) == Trim(ReplaceEntities(line))

\* A scan of the fragments without the length limit.
PageMatchesAnyLength(html) ==
  \E f \in 1..Len(SplitAngle(html)) : isSonnet5(Cleaned(SplitAngle(html)[f]))

\* Lines 120-125: some fragment of the page is short enough and matches.
PageMatches(html) ==
  \E f \in 1..Len(SplitAngle(html)) :
     LET cleaned == Cleaned(SplitAngle(html)[f]) IN
     Len(cleaned) < MaxFragmentLength /\ isSonnet5(cleaned)

\* A loop over urls inside one try/catch: the first failing request ends it.
WebFromStoppingOnFailure(pages, u) ==
  LET fails == {k \in u..Len(WebUrls) : pages[k].kind = "neterr"}
      hits == {k \in u..Len(WebUrls) :
                 /\ \A f \in fails : k < f
                 /\ pages[k].ok
                 /\ PageMatches(Chars(pages[k].html))}
  IN  IF hits = {} THEN NotFound ELSE CheckResult(TRUE, Null, WebUrls[First(hits)])

\* The loop over urls from index u on.
RECURSIVE WebFrom(_, _)
WebFrom(pages, u) ==
  IF u > Len(WebUrls) THEN NotFound
  ELSE IF pages[u].kind = "neterr" THEN WebFrom(pages, u + 1)
  ELSE IF ~pages[u].ok THEN WebFrom(pages, u + 1)
  ELSE IF PageMatches(Chars(pages[u].html))
         THEN CheckResult(TRUE, Null, WebUrls[u])
         ELSE WebFrom(pages, u + 1)

checkAnthropicWebsite(pages) == Fulfilled(WebFrom(pages, 1))

(***************************************************************************)
(* sources.ts: the Discussion-Search adapter.  A response is [kind, ok,    *)
(* payload, hits]; a hit is [title, objectID].                             *)
(***************************************************************************)
HnResponse(kind, ok, payload, hits) ==
  [kind |-> kind, ok |-> ok, payload |-> payload, hits |-> hits]

Hit(title, objectID) == [title |-> title, objectID |-> objectID]

HnHits(hits) == {k \in 1..Len(hits) : isSonnet5(Chars(OrElse(hits[k].title, "")))}

\* checkHackerNews reporting a hit without a link to it.
checkHackerNewsNoSource(resp) ==
  IF resp.kind = "neterr" THEN Fulfilled(NotFound)
  ELSE IF ~resp.ok THEN Fulfilled(NotFound)
  ELSE IF resp.payload = "bad" THEN Fulfilled(NotFound)
  ELSE IF HnHits(resp.hits) = {} THEN Fulfilled(NotFound)
  ELSE Fulfilled(CheckResult(TRUE, Null, Null))

\* checkHackerNews without its try/catch: a failed request leaves the function
\* as an error.
checkHackerNewsUncaught(resp) ==
  IF resp.kind = "neterr" \/ ~resp.ok \/ resp.payload = "bad" THEN Rejected
  ELSE IF HnHits(resp.hits) = {} THEN Fulfilled(NotFound)
  ELSE Fulfilled(CheckResult(TRUE, Null,
         "https://news.ycombinator.com/item?id="
            \o Interpolate(resp.hits[First(HnHits(resp.hits))].objectID)))

checkHackerNews(resp) ==
  IF resp.kind = "neterr" THEN Fulfilled(NotFound)
  ELSE IF ~resp.ok THEN Fulfilled(NotFound)
  ELSE IF resp.payload = "bad" THEN Fulfilled(NotFound)
  ELSE IF HnHits(resp.hits) = {} THEN Fulfilled(NotFound)
  ELSE Fulfilled(CheckResult(TRUE, Null,
         "https://news.ycombinator.com/item?id="
            \o Interpolate(resp.hits[First(HnHits(resp.hits))].objectID)))

(***************************************************************************)
(* sources.ts: the Release-Feed adapter.  feeds is one [releases, commits] *)
(* pair of responses per listed repository; a response is [kind, ok,       *)
(* payload, items].                                                        *)
(***************************************************************************)
Repos == << "anthropics/anthropic-sdk-python", "anthropics/anthropic-sdk-typescript" >>

FeedResponse(kind, ok, payload, items) ==
  [kind |-> kind, ok |-> ok, payload |-> payload, items |-> items]

Release(tag_name, name, body, html_url) ==
  [tag_name |-> tag_name, name |-> name, body |-> body, html_url |-> html_url]

Commit(message, html_url) == [message |-> message, html_url |-> html_url]

\* `${release.tag_name} ${release.name} ${release.body}`
ReleaseText(r) ==
  Chars(Interpolate(r.tag_name)) \o << " " >> \o Chars(Interpolate(r.name))
    \o << " " >> \o Chars(Interpolate(r.body))

ReleaseHits(items) == {k \in 1..Len(items) : isSonnet5(ReleaseText(items[k]))}

CommitHits(items) ==
  {k \in 1..Len(items) : isSonnet5(Chars(OrElse(items[k].message, "")))}

\* Lines 204-230: the commits of repository r, once no release matched.
RECURSIVE GitHubFrom(_, _)
\* A repository loop that goes on to the next repository without asking for
\* the commits.
CommitsOfNeverAsked(feeds, r) == GitHubFrom(feeds, r + 1)

CommitsOf(feeds, r) ==
  LET c == feeds[r].commits IN
  IF c.kind = "neterr" \/ ~c.ok \/ c.payload = "bad" \/ CommitHits(c.items) = {}
    THEN GitHubFrom(feeds, r + 1)
    ELSE CheckResult(TRUE, Null,
           OrElse(c.items[First(CommitHits(c.items))].html_url,
                  "https://github.com/" \o Repos[r]))

\* The loop over repos from index r on.
GitHubFrom(feeds, r) ==
  IF r > Len(Repos) THEN NotFound
  ELSE LET rel == feeds[r].releases IN
       IF rel.kind = "neterr" \/ ~rel.ok \/ rel.payload = "bad"
         THEN GitHubFrom(feeds, r + 1)
       ELSE IF ReleaseHits(rel.items) # {}
         THEN CheckResult(TRUE, Null,
                OrElse(rel.items[First(ReleaseHits(rel.items))].html_url,
                       "https://github.com/" \o Repos[r] \o "/releases"))
       ELSE CommitsOf(feeds, r)

checkGitHubSDK(feeds) == Fulfilled(GitHubFrom(feeds, 1))

(***************************************************************************)
(* sources.ts: the aggregator's reduction (lines 251-259) over the four    *)
(* results in the order of the Promise.all array.                          *)
(***************************************************************************)
\* A reduction that lets the last adapter reporting found win.
ReduceLastFound(results, i) ==
  LET hits == {k \in i..Len(results) : results[k].found} IN
  IF hits = {} THEN NotFound
  ELSE results[CHOOSE k \in hits : \A m \in hits : m <= k]

RECURSIVE ReduceFrom(_, _)
ReduceFrom(results, i) ==
  IF i > Len(results) THEN NotFound
  ELSE IF results[i].found THEN results[i]
  ELSE ReduceFrom(results, i + 1)

checkAllSourcesReduce(results) == ReduceFrom(results, 1)

(***************************************************************************)
(* The upstreams of the model: what each request of an adapter can be      *)
(* answered with.                                                          *)
(***************************************************************************)
NoApiResponse == ApiResponse("none", 0, Null, "bad", << >>)

\* sent is the If-None-Match tag of the request (Null: unconditional).
ApiResponses(sent) ==
  {ApiResponse("neterr", 0, Null, "bad", << >>)}
    \cup {ApiResponse("http", 200, t, p, Catalog(t)) : t \in Tags, p \in {"ok", "bad"}}
    \cup {ApiResponse("http", 200, Null, "ok", Catalog(t)) : t \in Tags}
    \cup {ApiResponse("http", 500, t, "bad", << >>) : t \in Tags \cup {Null}}
    \cup (IF sent = Null THEN {}
          ELSE {ApiResponse("http", 304, sent, "bad", << >>)})

\* The answers of a catalog endpoint whose headers and bodies are well formed.
ApiResponsesBasic(sent) ==
  {r \in ApiResponses(sent) :
     \/ r.kind = "neterr"
     \/ r.status = 304
     \/ r.status = 200 /\ r.etag # Null /\ r.payload = "ok"
     \/ r.status = 500 /\ r.etag = Null}

\* The answers that make the adapter fail: the fetch throws, the status is not
\* 2xx, or the body of a 200 cannot be read.
ApiFaults(sent) ==
  {r \in ApiResponses(sent) :
     \/ r.kind = "neterr"
     \/ r.status \notin 200..299 /\ r.status # 304
     \/ r.status = 200 /\ r.payload = "bad"}

\* The answers by the tag sent, worked out once.
ApiAnswers == [sent \in Tags \cup {Null} |-> ApiResponses(sent)]

ApiAnswersBasic == [sent \in Tags \cup {Null} |-> ApiResponsesBasic(sent)]

ApiAnswersFaults == [sent \in Tags \cup {Null} |-> ApiFaults(sent)]

PageDown == PageResponse("neterr", FALSE, "")

WebInputs ==
  { << PageDown, PageDown, PageDown >>,
    << PageResponse("http", FALSE, ""),
       PageResponse("http", TRUE, "<h1>Claude Sonnet-5</h1>"),
       PageResponse("http", TRUE, "<p>News &amp; more</p>") >>,
    << PageResponse("http", TRUE, "<p>News &amp; more</p>"),
       PageResponse("http", TRUE, "<p>Claude 3.5 Sonnet</p>"),
       PageDown >> }

\* The inputs on which every request fails: the fetch throws or answers non-2xx.
WebFaults ==
  {pages \in WebInputs :
     \A u \in 1..Len(WebUrls) : pages[u].kind = "neterr" \/ ~pages[u].ok}

HnInputs ==
  { HnResponse("neterr", FALSE, "bad", << >>),
    HnResponse("http", FALSE, "bad", << >>),
    HnResponse("http", TRUE, "bad", << >>),
    HnResponse("http", TRUE, "ok", << Hit("Claude 4.5 Sonnet review", "100") >>),
    HnResponse("http", TRUE, "ok",
               << Hit("Claude 4.5 Sonnet review", "100"),
                  Hit("Anthropic ships Sonnet-5", "101") >>) }

\* The fetch throws, answers non-2xx, or its body is not the expected JSON.
HnFaults ==
  {resp \in HnInputs : resp.kind = "neterr" \/ ~resp.ok \/ resp.payload = "bad"}

FeedDown == FeedResponse("neterr", FALSE, "bad", << >>)

FeedError == FeedResponse("http", FALSE, "bad", << >>)

NoReleases == FeedResponse("http", TRUE, "ok", << Release("v1.0", "v1.0", Null, Null) >>)

NoCommits == FeedResponse("http", TRUE, "ok", << Commit("fix typo", Null) >>)

ReleaseUrl == "https://github.com/anthropics/anthropic-sdk-typescript/releases/tag/v1.0"

CommitUrl == "https://github.com/anthropics/anthropic-sdk-python/commit/abc"

Feed(releases, commits) == [releases |-> releases, commits |-> commits]

GitHubInputs ==
  { << Feed(FeedDown, NoCommits), Feed(FeedError, NoCommits) >>,
    << Feed(NoReleases, NoCommits),
       Feed(FeedResponse("http", TRUE, "bad", << >>), NoCommits) >>,
    << Feed(NoReleases,
            FeedResponse("http", TRUE, "ok",
                         << Commit("fix typo", Null),
                            Commit("add sonnet-5 to the model list", CommitUrl) >>)),
       Feed(NoReleases, NoCommits) >>,
    << Feed(FeedError, NoCommits),
       Feed(FeedResponse("http", TRUE, "ok",
                         << Release("v1.0", "v1.0", "Add claude-sonnet-5", ReleaseUrl) >>),
            FeedDown) >>,
    << Feed(FeedResponse("http", TRUE, "ok",
                         << Release(Null, Null, "Add claude-sonnet-5", Null) >>),
            NoCommits),
       Feed(NoReleases, NoCommits) >>,
    << Feed(NoReleases, NoCommits),
       Feed(NoReleases,
            FeedResponse("http", TRUE, "ok",
                         << Commit("add sonnet-5 to the model list", Null) >>)) >> }

FeedFails(f) == f.kind = "neterr" \/ ~f.ok \/ f.payload = "bad"

\* The inputs on which the releases request of every repository fails.
GitHubFaults ==
  {feeds \in GitHubInputs : \A r \in 1..Len(Repos) : FeedFails(feeds[r].releases)}

(***************************************************************************)
(* The adapters applied to every answer of the modelled upstreams, worked  *)
(* out once.                                                               *)
(***************************************************************************)
WebTable == [pages \in WebInputs |-> checkAnthropicWebsite(pages)]

HnTable == [resp \in HnInputs |-> checkHackerNews(resp)]

GitHubTable == [feeds \in GitHubInputs |-> checkGitHubSDK(feeds)]

\* The inputs of the Release-Feed adapter in which nothing matches.
GitHubInputsNoMatch == {feeds \in GitHubInputs : ~GitHubTable[feeds].value.found}

(***************************************************************************)
(* The state of the process.                                               *)
(***************************************************************************)
\* Who can call performCheck: setInterval (and the call at startup), the
\* handler of POST /check and the handler of POST /trigger.
Callers == {"timer", "check", "trigger"}

\* The index of each adapter in the Promise.all array of checkAllSources.
API == 1

WEB == 2

HN == 3

GITHUB == 4

Adapters == {API, WEB, HN, GITHUB}

\* Endpoints of the push subscriptions in the store.
Endpoints == {"e1", "e2"}

VARIABLES
  apiKeySet,         \* sources.ts: ANTHROPIC_API_KEY is set
  vapidSet,          \* notifications.ts: both VAPID keys are set
  now,               \* the clock read by new Date()
  lastStatus,        \* index.ts
  isChecking,        \* index.ts
  previouslyFound,   \* index.ts
  lastEtag,          \* sources.ts
  lastApiResult,     \* sources.ts
  notificationSent,  \* notifications.ts
  subs,              \* the push-subscriptions collection, by endpoint
  pc,                \* where each caller's performCheck is suspended
  reqAt,             \* when the request a caller is serving arrived
  promise,           \* the adapter promises of each caller's checkAllSources
  result,            \* the local `result` of each caller's performCheck
  push,              \* the run of sendWebPushNotifications
  ntfy,              \* the run of sendNtfyNotification
  notifyWaiter,      \* who awaits the Promise.allSettled of the notifier
  sent,              \* the HTTP response sent in the last step, if any
  attempts,          \* history: calls of each channel's send function
  notifyCalls,       \* history: calls of notifySonnet5Dropped
  foundHistory,      \* history: the found of the completed checks so far
  classified,        \* a text given to isSonnet5 and what the call returned
  scraped,           \* pages given to checkAnthropicWebsite and what it did
  polled,            \* feeds given to checkGitHubSDK and what it did
  supported,         \* the browser has serviceWorker and PushManager
  permission,        \* Notification.permission
  subscription,      \* the endpoint of the browser's push subscription, if any
  state,             \* usePushNotifications: state
  error,             \* usePushNotifications: error
  call               \* the call of the hook in flight, or the one that finished last

config == << apiKeySet, vapidSet >>

scheduler == << lastStatus, isChecking, previouslyFound >>

cache == << lastEtag, lastApiResult >>

notifier == << notificationSent, push, ntfy, notifyWaiter, attempts >>

calls == << pc, reqAt, promise, result >>

history == << notifyCalls, foundHistory >>

browser == << supported, permission, subscription, state, error, call >>

vars ==
  << apiKeySet, vapidSet, now, lastStatus, isChecking, previouslyFound, lastEtag,
     lastApiResult, notificationSent, subs, pc, reqAt, promise, result, push, ntfy,
     notifyWaiter, sent, attempts, notifyCalls, foundHistory, classified,
     scraped, polled, supported, permission, subscription, state, error, call >>

\* The hook's call record: the function (op), the await it is suspended at
\* (at, "done" once it has returned), the local it holds across awaits, and
\* whether a call it made to the browser or the backend has failed.
HookCall(op, at, local, failed) ==
  [op |-> op, at |-> at, local |-> local, failed |-> failed]

\* Lines 8-12 and 38: the component has mounted, the effect is about to run.
Mounting == HookCall("checkState", "start", Null, FALSE)

\* The page as first loaded in a browser that holds no push subscription.
InitBrowser ==
  /\ supported = TRUE
  /\ permission = "default"
  /\ subscription = Null
  /\ state = "loading"
  /\ error = Null
  /\ call = Mounting

\* StatusData
Snapshot(r, at) ==
  [found |-> r.found, model |-> r.model, source |-> r.source, checkedAt |-> at]

Idle == [status |-> "idle", value |-> NotFound]

Pending == [status |-> "pending", value |-> NotFound]

NoPromises == [i \in Adapters |-> Idle]

\* The entry of a subscription in the results of the broadcast before its send
\* has settled.
NoSend == [code |-> -1, removed |-> FALSE]

\* The permanently-gone status codes of line 331.
Gone == {410, 404}

\* sendWebPushNotifications: its promise (st), the subscriptions it loaded,
\* the sends not yet settled, how each send settled, and the two counts.
PushIdle ==
  [st |-> "idle", loaded |-> {}, pending |-> {},
   results |-> [e \in Endpoints |-> NoSend], succeeded |-> 0, failed |-> 0]

\* Pages on which checkAnthropicWebsite has not been called yet; fetched is
\* the indices of the pages requested so far.
Unscraped(pages) ==
  [pages |-> pages, returned |-> FALSE, value |-> NotFound, fetched |-> << >>]

\* Feeds on which checkGitHubSDK has not been called yet; fetched is the
\* requests made so far.
Unpolled(feeds) ==
  [feeds |-> feeds, returned |-> FALSE, value |-> NotFound, fetched |-> << >>]

\* A text on which isSonnet5 has not been called yet.
Unclassified(text) == [text |-> text, returned |-> FALSE, value |-> FALSE]

NoResponse ==
  [to |-> Null, code |-> 0, body |-> Snapshot(NotFound, 0), reqAt |-> 0,
   ran |-> FALSE, result |-> NotFound]

\* c.json(lastStatus) / c.json({ triggered: true, status: lastStatus }); ran and
\* result record whether the request's own performCheck ran the aggregator.
Response(c, body, at, ran, r) ==
  [to |-> c, code |-> 200, body |-> body, reqAt |-> at, ran |-> ran, result |-> r]

Bump(n) == IF n < MaxCount THEN n + 1 ELSE n

\* "never": no completed check found the model; "found": some did, and none
\* after the first of them did not; "reverted": one after the first did not.
FoundHistory(h, found) ==
  IF found THEN (IF h = "never" THEN "found" ELSE h)
  ELSE (IF h = "never" THEN "never" ELSE "reverted")

Init ==
  /\ apiKeySet \in BOOLEAN
  /\ vapidSet \in BOOLEAN
  /\ now = 0
  /\ lastStatus = Snapshot(NotFound, 0)
  /\ isChecking = FALSE
  /\ previouslyFound = FALSE
  /\ lastEtag = Null
  /\ lastApiResult = NotFound
  /\ notificationSent = FALSE
  /\ subs = {"e1"}
  /\ InitBrowser
  /\ pc = [c \in Callers |-> "idle"]
  /\ reqAt = [c \in Callers |-> 0]
  /\ promise = [c \in Callers |-> NoPromises]
  /\ result = [c \in Callers |-> NotFound]
  /\ push = PushIdle
  /\ ntfy = "idle"
  /\ notifyWaiter = Null
  /\ sent = NoResponse
  /\ attempts = [push |-> 0, ntfy |-> 0]
  /\ notifyCalls = 0
  /\ foundHistory = "never"
  /\ classified = Unclassified(<< >>)
  /\ scraped = Unscraped(<< PageDown, PageDown, PageDown >>)
  /\ polled = Unpolled(<< Feed(FeedDown, FeedDown), Feed(FeedDown, FeedDown) >>)

\* Time passes.
Tick ==
  /\ now < MaxTime
  /\ now' = now + 1
  /\ sent' = NoResponse
  /\ UNCHANGED << config, browser, classified, scraped, polled, scheduler, cache, notifier, subs, calls, history >>

\* notifySonnet5Dropped without the notificationSent check of line 376.
notifyWithoutLatch(k) ==
  /\ notifyCalls' = Bump(notifyCalls)
  /\ notificationSent' = TRUE
  /\ push' = IF vapidSet THEN [PushIdle EXCEPT !.st = "loading"]
                         ELSE [PushIdle EXCEPT !.st = "fulfilled"]
  /\ ntfy' = "posting"
  /\ notifyWaiter' = k
  /\ attempts' = [push |-> Bump(attempts.push), ntfy |-> Bump(attempts.ntfy)]

(***************************************************************************)
(* notifications.ts: notifySonnet5Dropped up to its await, called by k.    *)
(* The caller goes on at once when the latch was set, and awaits the two   *)
(* channels otherwise.                                                     *)
(***************************************************************************)
notifySonnet5Dropped(k) ==
  /\ notifyCalls' = Bump(notifyCalls)
  /\ IF notificationSent
       THEN UNCHANGED notifier
       ELSE /\ notificationSent' = TRUE
            /\ push' = IF vapidSet THEN [PushIdle EXCEPT !.st = "loading"]
                                   ELSE [PushIdle EXCEPT !.st = "fulfilled"]
            /\ ntfy' = "posting"
            /\ notifyWaiter' = k
            /\ attempts' = [push |-> Bump(attempts.push),
                            ntfy |-> Bump(attempts.ntfy)]

\* sendWebPushNotifications: getAllSubscriptions answers or throws.
PushLoads(ok) ==
  /\ push.st = "loading"
  /\ push' = IF ~ok THEN [push EXCEPT !.st = "rejected"]
             ELSE IF subs = {} THEN [push EXCEPT !.st = "fulfilled"]
             ELSE [push EXCEPT !.st = "sending", !.loaded = subs, !.pending = subs]
  /\ sent' = NoResponse
  /\ UNCHANGED << config, browser, classified, scraped, polled, now, scheduler, cache, notificationSent, ntfy,
                  notifyWaiter, attempts, subs, calls, history >>

\* A broadcast in which every failed send costs the subscription its entry.
PushSendsDeletingOnFailure(e, code, removed) ==
  /\ push.st = "sending"
  /\ e \in push.pending
  /\ subs' = IF code # 0 /\ removed THEN subs \ {e} ELSE subs
  /\ push' = [push EXCEPT
                !.st = IF push.pending = {e} THEN "fulfilled" ELSE "sending",
                !.pending = push.pending \ {e},
                !.results[e] = [code |-> code, removed |-> code \in Gone /\ removed],
                !.succeeded = IF code = 0 THEN @ + 1 ELSE @,
                !.failed = IF code = 0 THEN @ ELSE @ + 1]
  /\ sent' = NoResponse
  /\ UNCHANGED << config, browser, classified, scraped, polled, now, scheduler, cache, notificationSent, ntfy,
                  notifyWaiter, attempts, calls, history >>

\* A broadcast with Promise.all in place of Promise.allSettled: the first
\* failed send ends it.
PushSendsFailFast(e, code, removed) ==
  /\ push.st = "sending"
  /\ e \in push.pending
  /\ subs' = IF code \in Gone /\ removed THEN subs \ {e} ELSE subs
  /\ push' = [push EXCEPT
                !.st = IF code # 0 THEN "rejected"
                       ELSE IF push.pending = {e} THEN "fulfilled" ELSE "sending",
                !.pending = IF code # 0 THEN {} ELSE push.pending \ {e},
                !.results[e] = [code |-> code, removed |-> code \in Gone /\ removed]]
  /\ sent' = NoResponse
  /\ UNCHANGED << config, browser, classified, scraped, polled, now, scheduler, cache, notificationSent, ntfy,
                  notifyWaiter, attempts, calls, history >>

\* Lines 326-336: the send to subscription e settles with statusCode code
\* (0: sent); removed tells whether the delete of a gone subscription worked.
\* Lines 339-340 count the settled sends.
PushSends(e, code, removed) ==
  /\ push.st = "sending"
  /\ e \in push.pending
  /\ subs' = IF code \in Gone /\ removed THEN subs \ {e} ELSE subs
  /\ push' = [push EXCEPT
                !.st = IF push.pending = {e} THEN "fulfilled" ELSE "sending",
                !.pending = push.pending \ {e},
                !.results[e] = [code |-> code, removed |-> code \in Gone /\ removed],
                !.succeeded = IF code = 0 THEN @ + 1 ELSE @,
                !.failed = IF code = 0 THEN @ ELSE @ + 1]
  /\ sent' = NoResponse
  /\ UNCHANGED << config, browser, classified, scraped, polled, now, scheduler, cache, notificationSent, ntfy,
                  notifyWaiter, attempts, calls, history >>

\* sendNtfyNotification: the POST answers 2xx (ok), or it answers otherwise or
\* throws; the function logs which and returns.
NtfyPosts(ok) ==
  /\ ntfy = "posting"
  /\ ntfy' = IF ok THEN "sent" ELSE "failed"
  /\ sent' = NoResponse
  /\ UNCHANGED << config, browser, classified, scraped, polled, now, scheduler, cache, notificationSent, push,
                  notifyWaiter, attempts, subs, calls, history >>

\* A Promise.all in place of the Promise.allSettled of line 387, which lets
\* the caller go on only when no channel failed.
ChannelsAllSucceeded == push.st = "fulfilled" /\ ntfy = "sent"

\* Promise.allSettled([...]) of line 387 has settled.
ChannelsSettled == push.st \in {"fulfilled", "rejected"} /\ ntfy \in {"sent", "failed"}

\* Lines 389-390: notifySonnet5Dropped returns to the caller awaiting it.
NotifierReturns ==
  /\ push' = PushIdle
  /\ ntfy' = "idle"
  /\ notifyWaiter' = Null

(***************************************************************************)
(* index.ts: performCheck.                                                 *)
(***************************************************************************)
\* performCheck without its finally block.
FinishWithoutRelease(c, body, ran, r) ==
  /\ isChecking' = isChecking
  /\ pc' = [pc EXCEPT ![c] = "idle"]
  /\ reqAt' = [reqAt EXCEPT ![c] = 0]
  /\ promise' = [promise EXCEPT ![c] = NoPromises]
  /\ result' = [result EXCEPT ![c] = NotFound]
  /\ sent' = IF c = "timer" THEN NoResponse
             ELSE Response(c, body, reqAt[c], ran, r)

\* A handler that answers with the snapshot it read before awaiting performCheck.
FinishWithEarlierSnapshot(c, body, ran, r) ==
  /\ isChecking' = FALSE
  /\ pc' = [pc EXCEPT ![c] = "idle"]
  /\ reqAt' = [reqAt EXCEPT ![c] = 0]
  /\ promise' = [promise EXCEPT ![c] = NoPromises]
  /\ result' = [result EXCEPT ![c] = NotFound]
  /\ sent' = IF c = "timer" THEN NoResponse
             ELSE Response(c, lastStatus, reqAt[c], ran, r)

\* A performCheck that leaves through a return of its found branch, past the
\* release of the guard.
FinishReleasingOnlyUnfound(c, body, ran, r) ==
  /\ isChecking' = r.found
  /\ pc' = [pc EXCEPT ![c] = "idle"]
  /\ reqAt' = [reqAt EXCEPT ![c] = 0]
  /\ promise' = [promise EXCEPT ![c] = NoPromises]
  /\ result' = [result EXCEPT ![c] = NotFound]
  /\ sent' = IF c = "timer" THEN NoResponse
             ELSE Response(c, body, reqAt[c], ran, r)

\* The finally block and the return to the caller, who answers the request.
Finish(c, body, ran, r) ==
  /\ isChecking' = FALSE
  /\ pc' = [pc EXCEPT ![c] = "idle"]
  /\ reqAt' = [reqAt EXCEPT ![c] = 0]
  /\ promise' = [promise EXCEPT ![c] = NoPromises]
  /\ result' = [result EXCEPT ![c] = NotFound]
  /\ sent' = IF c = "timer" THEN NoResponse
             ELSE Response(c, body, reqAt[c], ran, r)

\* performCheck without the isChecking test of line 319.
performCheckNoGuard(c) ==
  /\ pc[c] = "idle"
  /\ isChecking' = TRUE
  /\ pc' = [pc EXCEPT ![c] = "aggregate"]
  /\ reqAt' = [reqAt EXCEPT ![c] = now]
  /\ promise' = [promise EXCEPT ![c] =
        [i \in Adapters |->
           IF i = API /\ ~apiKeySet
             THEN checkAnthropicAPI(FALSE, lastEtag, lastApiResult,
                                    NoApiResponse).settled
             ELSE Pending]]
  /\ sent' = NoResponse
  /\ UNCHANGED << config, browser, classified, scraped, polled, now, lastStatus, previouslyFound, cache, notifier,
                  subs, result, history >>

\* A check whose Structured-API adapter sends its request with or without a key.
performCheckAlwaysFetching(c) ==
  IF isChecking
    THEN /\ sent' = IF c = "timer" THEN NoResponse
                    ELSE Response(c, lastStatus, now, FALSE, NotFound)
         /\ UNCHANGED << config, browser, classified, scraped, polled, now, scheduler, cache, notifier, subs, calls,
                         history >>
    ELSE /\ pc[c] = "idle"
         /\ isChecking' = TRUE
         /\ pc' = [pc EXCEPT ![c] = "aggregate"]
         /\ reqAt' = [reqAt EXCEPT ![c] = now]
         /\ promise' = [promise EXCEPT ![c] = [i \in Adapters |-> Pending]]
         /\ sent' = NoResponse
         /\ UNCHANGED << config, browser, classified, scraped, polled, now, lastStatus, previouslyFound, cache, notifier,
                         subs, result, history >>

\* performCheck with the isChecking test inside the try block: the finally
\* block of a dropped call clears the flag of the check in flight.
performCheckGuardInsideTry(c) ==
  IF isChecking
    THEN /\ isChecking' = FALSE
         /\ sent' = IF c = "timer" THEN NoResponse
                    ELSE Response(c, lastStatus, now, FALSE, NotFound)
         /\ UNCHANGED << config, browser, classified, scraped, polled, now, lastStatus,
                         previouslyFound, cache, notifier, subs, calls, history >>
    ELSE /\ pc[c] = "idle"
         /\ isChecking' = TRUE
         /\ pc' = [pc EXCEPT ![c] = "aggregate"]
         /\ reqAt' = [reqAt EXCEPT ![c] = now]
         /\ promise' = [promise EXCEPT ![c] =
               [i \in Adapters |->
                  IF i = API /\ ~apiKeySet
                    THEN checkAnthropicAPI(FALSE, lastEtag, lastApiResult,
                                           NoApiResponse).settled
                    ELSE Pending]]
         /\ sent' = NoResponse
         /\ UNCHANGED << config, browser, classified, scraped, polled, now, lastStatus,
                         previouslyFound, cache, notifier, subs, result, history >>

\* Lines 319-323: the guard, and the start of checkAllSources, which calls
\* the four adapters; without an API key the first returns at once.
performCheck(c) ==
  IF isChecking
    THEN /\ sent' = IF c = "timer" THEN NoResponse
                    ELSE Response(c, lastStatus, now, FALSE, NotFound)
         /\ UNCHANGED << config, browser, classified, scraped, polled, now, scheduler, cache, notifier, subs, calls,
                         history >>
    ELSE /\ pc[c] = "idle"
         /\ isChecking' = TRUE
         /\ pc' = [pc EXCEPT ![c] = "aggregate"]
         /\ reqAt' = [reqAt EXCEPT ![c] = now]
         /\ promise' = [promise EXCEPT ![c] =
               [i \in Adapters |->
                  IF i = API /\ ~apiKeySet
                    THEN checkAnthropicAPI(FALSE, lastEtag, lastApiResult,
                                           NoApiResponse).settled
                    ELSE Pending]]
         /\ sent' = NoResponse
         /\ UNCHANGED << config, browser, classified, scraped, polled, now, lastStatus, previouslyFound, cache, notifier,
                         subs, result, history >>

\* setInterval(performCheck, CHECK_INTERVAL_MS) and the call at startup.
TimerTick == performCheck("timer")

\* app.post("/check")
PostCheck == performCheck("check")

\* process.env.SCHEDULER_SECRET (Null: not set) and the Authorization header
\* of a request (Null: none).
Secrets == {Null, "", "s3cret"}

Headers == {Null, "Bearer s3cret", "Bearer wrong", "bearer s3cret", "s3cret", "Bearer "}

\* An authorization that accepts any request carrying the header.
AuthorizedWhenHeaderPresent(secret, header) ==
  secret = Null \/ secret = "" \/ header # Null

\* Line 378: !(expectedToken && authHeader !== `Bearer ${expectedToken}`)
Authorized(secret, header) ==
  ~(secret # Null /\ secret # "" /\ header # "Bearer " \o secret)

\* What line 378 can decide on the modelled secrets and headers.
Authorizations == {Authorized(sh[1], sh[2]) : sh \in Secrets \X Headers}

\* app.post("/trigger"): authorized is false when a secret is configured and
\* the Authorization header is not "Bearer <secret>".
PostTrigger(authorized) ==
  IF authorized
    THEN performCheck("trigger")
    ELSE /\ sent' = [NoResponse EXCEPT !.to = "trigger", !.code = 401, !.reqAt = now]
         /\ UNCHANGED << config, browser, classified, scraped, polled, now, scheduler, cache, notifier, subs, calls,
                         history >>

\* The adapters of caller c's run settle, each on the answers of its upstream.
ApiSettles(c, resp) ==
  /\ promise[c][API].status = "pending"
  /\ LET out == checkAnthropicAPI(apiKeySet, lastEtag, lastApiResult, resp) IN
       /\ promise' = [promise EXCEPT ![c][API] = out.settled]
       /\ lastEtag' = out.lastEtag
       /\ lastApiResult' = out.lastApiResult
  /\ sent' = NoResponse
  /\ UNCHANGED << config, browser, classified, scraped, polled, now, scheduler, notifier, subs, pc, reqAt, result,
                  history >>

WebSettles(c, pages) ==
  /\ promise[c][WEB].status = "pending"
  /\ promise' = [promise EXCEPT ![c][WEB] = WebTable[pages]]
  /\ sent' = NoResponse
  /\ UNCHANGED << config, browser, classified, scraped, polled, now, scheduler, cache, notifier, subs, pc, reqAt,
                  result, history >>

HnSettles(c, resp) ==
  /\ promise[c][HN].status = "pending"
  /\ promise' = [promise EXCEPT ![c][HN] = HnTable[resp]]
  /\ sent' = NoResponse
  /\ UNCHANGED << config, browser, classified, scraped, polled, now, scheduler, cache, notifier, subs, pc, reqAt,
                  result, history >>

GitHubSettles(c, feeds) ==
  /\ promise[c][GITHUB].status = "pending"
  /\ promise' = [promise EXCEPT ![c][GITHUB] = GitHubTable[feeds]]
  /\ sent' = NoResponse
  /\ UNCHANGED << config, browser, classified, scraped, polled, now, scheduler, cache, notifier, subs, pc, reqAt,
                  result, history >>

\* A Promise.all that would settle as soon as one adapter reported found.
AggregateReadyOnFirstFound(c) ==
  \/ \A i \in Adapters : promise[c][i].status = "fulfilled"
  \/ \E i \in Adapters : promise[c][i].status = "rejected"
  \/ \E i \in Adapters : promise[c][i].status = "fulfilled" /\ promise[c][i].value.found

\* Promise.all of line 242 settles: fulfilled once all four are, rejected as
\* soon as one is.
AllFulfilled(c) == \A i \in Adapters : promise[c][i].status = "fulfilled"

SomeRejected(c) == \E i \in Adapters : promise[c][i].status = "rejected"

AggregateReady(c) == AllFulfilled(c) \/ SomeRejected(c)

\* checkAllSources, lines 249-259, on the settled promises of caller c.
checkAllSources(c) ==
  checkAllSourcesReduce([i \in 1..4 |-> promise[c][i].value])

\* A write of the snapshot that is skipped when nothing was found.
WriteStatusUnlessNotFound(r) ==
  lastStatus' = IF r.found THEN Snapshot(r, now) ELSE lastStatus

\* A write of the snapshot only when found changes.
WriteStatusOnChange(r) ==
  lastStatus' = IF r.found # lastStatus.found THEN Snapshot(r, now) ELSE lastStatus

\* An edge detection on the previous snapshot in place of previouslyFound.
FirstFoundSinceSnapshot(r) == r.found /\ ~lastStatus.found

\* Lines 325-330.
WriteStatus(r) == lastStatus' = Snapshot(r, now)

\* An edge detection that waits for a result naming the model.
FirstFoundWithModel(r) == r.found /\ r.model # Null /\ ~previouslyFound

\* Line 332.
FirstFound(r) == r.found /\ ~previouslyFound

\* performCheck from the return of checkAllSources to its next await or to
\* its end; a rejected checkAllSources goes to the catch block.
AfterAggregate(c) ==
  /\ pc[c] = "aggregate"
  /\ AggregateReady(c)
  /\ IF SomeRejected(c)
       THEN /\ Finish(c, lastStatus, FALSE, NotFound)
            /\ UNCHANGED << lastStatus, previouslyFound, notifier, history >>
       ELSE LET r == checkAllSources(c) IN
            /\ WriteStatus(r)
            /\ foundHistory' = FoundHistory(foundHistory, r.found)
            /\ IF FirstFound(r)
                 THEN /\ previouslyFound' = TRUE
                      /\ notifySonnet5Dropped(c)
                      /\ IF notificationSent
                           THEN Finish(c, Snapshot(r, now), TRUE, r)
                           ELSE /\ pc' = [pc EXCEPT ![c] = "notify"]
                                /\ result' = [result EXCEPT ![c] = r]
                                /\ sent' = NoResponse
                                /\ UNCHANGED << isChecking, reqAt, promise >>
                 ELSE /\ Finish(c, Snapshot(r, now), TRUE, r)
                      /\ UNCHANGED << previouslyFound, notifyCalls, notifier >>
  /\ UNCHANGED << config, browser, classified, scraped, polled, now, cache, subs >>

\* A performCheck that takes a failed push broadcast for a failed check and
\* puts the snapshot back to not-found.
AfterNotifyUndoingOnFailure(c) ==
  /\ pc[c] = "notify"
  /\ notifyWaiter = c
  /\ ChannelsSettled
  /\ lastStatus' = IF push.st = "rejected" THEN Snapshot(NotFound, now) ELSE lastStatus
  /\ Finish(c, lastStatus', TRUE, result[c])
  /\ NotifierReturns
  /\ UNCHANGED << config, browser, classified, scraped, polled, now, previouslyFound, cache, notificationSent, attempts,
                  subs, history >>

\* performCheck from the return of notifySonnet5Dropped to its end.
AfterNotify(c) ==
  /\ pc[c] = "notify"
  /\ notifyWaiter = c
  /\ ChannelsSettled
  /\ Finish(c, lastStatus, TRUE, result[c])
  /\ NotifierReturns
  /\ UNCHANGED << config, browser, classified, scraped, polled, now, lastStatus, previouslyFound, cache,
                  notificationSent, attempts, subs, history >>

\* One step of the process, its upstreams answering from the given sets.
NextOn(apiIn, webIn, hnIn, gitHubIn) ==
  \/ Tick
  \/ TimerTick
  \/ PostCheck
  \/ \E authorized \in Authorizations : PostTrigger(authorized)
  \/ \E c \in Callers : \E resp \in apiIn[lastEtag] : ApiSettles(c, resp)
  \/ \E c \in Callers : \E pages \in webIn : WebSettles(c, pages)
  \/ \E c \in Callers : \E resp \in hnIn : HnSettles(c, resp)
  \/ \E c \in Callers : \E feeds \in gitHubIn : GitHubSettles(c, feeds)
  \/ \E c \in Callers : AfterAggregate(c)
  \/ \E ok \in BOOLEAN : PushLoads(ok)
  \/ \E e \in Endpoints : \E code \in {0, 410, 404, 500} : \E removed \in BOOLEAN :
        PushSends(e, code, removed)
  \/ \E ok \in BOOLEAN : NtfyPosts(ok)
  \/ \E c \in Callers : AfterNotify(c)

\* The whole process.  The catalog endpoint answers without faults in its
\* headers or its body, and the release feeds hold no match.
Next == NextOn(ApiAnswersBasic, WebInputs, HnInputs, GitHubInputsNoMatch)

Spec == Init /\ [][Next]_vars

\* The process with failing upstreams: the catalog endpoint answers in every
\* way, each request of the other three adapters fails.
NextFaults == NextOn(ApiAnswers, WebFaults, HnFaults, GitHubFaults)

SpecFaults == Init /\ [][NextFaults]_vars

(***************************************************************************)
(* notifications.ts on its own: the callers invoke notifySonnet5Dropped    *)
(* directly, any number of times, also while an earlier call is awaiting   *)
(* the channels.                                                           *)
(***************************************************************************)
InitNotifier ==
  /\ apiKeySet = FALSE
  /\ vapidSet \in BOOLEAN
  /\ now = 0
  /\ lastStatus = Snapshot(NotFound, 0)
  /\ isChecking = FALSE
  /\ previouslyFound = FALSE
  /\ lastEtag = Null
  /\ lastApiResult = NotFound
  /\ notificationSent = FALSE
  /\ subs \in SUBSET Endpoints
  /\ InitBrowser
  /\ pc = [c \in Callers |-> "idle"]
  /\ reqAt = [c \in Callers |-> 0]
  /\ promise = [c \in Callers |-> NoPromises]
  /\ result = [c \in Callers |-> NotFound]
  /\ push = PushIdle
  /\ ntfy = "idle"
  /\ notifyWaiter = Null
  /\ sent = NoResponse
  /\ attempts = [push |-> 0, ntfy |-> 0]
  /\ notifyCalls = 0
  /\ foundHistory = "never"
  /\ classified = Unclassified(<< >>)
  /\ scraped = Unscraped(<< PageDown, PageDown, PageDown >>)
  /\ polled = Unpolled(<< Feed(FeedDown, FeedDown), Feed(FeedDown, FeedDown) >>)

\* Caller c calls notifySonnet5Dropped and awaits it.
Invoke(c) ==
  /\ pc[c] = "idle"
  /\ notifySonnet5Dropped(c)
  /\ pc' = [pc EXCEPT ![c] = IF notificationSent THEN "idle" ELSE "notify"]
  /\ UNCHANGED << config, browser, classified, scraped, polled, now, scheduler, cache, subs, reqAt, promise, result,
                  sent, foundHistory >>

\* The call of c returns.
InvokeReturns(c) ==
  /\ pc[c] = "notify"
  /\ notifyWaiter = c
  /\ ChannelsSettled
  /\ NotifierReturns
  /\ pc' = [pc EXCEPT ![c] = "idle"]
  /\ UNCHANGED << config, browser, classified, scraped, polled, now, scheduler, cache, notificationSent, attempts,
                  subs, reqAt, promise, result, sent, history >>

NextNotifier ==
  \/ \E c \in Callers : Invoke(c)
  \/ \E c \in Callers : InvokeReturns(c)
  \/ \E ok \in BOOLEAN : PushLoads(ok)
  \/ \E e \in Endpoints : \E code \in {0, 410, 404, 500} : \E removed \in BOOLEAN :
        PushSends(e, code, removed)
  \/ \E ok \in BOOLEAN : NtfyPosts(ok)

SpecNotifier == InitNotifier /\ [][NextNotifier]_vars

(***************************************************************************)
(* The properties.                                                         *)
(***************************************************************************)
\* The callers whose performCheck has started and not returned.
InFlight == {c \in Callers : pc[c] # "idle"}

\* The results of the four adapters of caller c, in the order of Promise.all.
Values(c) == [i \in 1..4 |-> promise[c][i].value]

\* The run of caller c ends in this step with the result of checkAllSources.
Completes(c) == pc[c] = "aggregate" /\ pc'[c] # "aggregate" /\ AllFulfilled(c)

\* C1: at most one performCheck is past its guard at any time; while one is,
\* no trigger starts another run or changes any run's state, and nothing is
\* started later on its behalf; the snapshot changes only by the write of the
\* check in flight, to that check's result.
OneCheckInFlight ==
  /\ [](Cardinality(InFlight) <= 1)
  /\ [][/\ isChecking => \A c \in Callers : pc[c] = "idle" => pc'[c] = "idle"
        /\ \A c \in Callers :
              pc[c] = "idle" /\ pc'[c] # "idle" => ~isChecking /\ sent' = NoResponse
        /\ lastStatus' # lastStatus =>
              \E c \in InFlight : /\ InFlight = {c}
                                  /\ lastStatus' = Snapshot(checkAllSources(c), now)]_vars

\* A POST /check arrived while a check was in flight and was answered without
\* a run of its own.
DroppedTrigger ==
  /\ isChecking
  /\ Cardinality(InFlight) = 1
  /\ sent.to = "check"
  /\ ~sent.ran
  /\ "check" \notin InFlight

\* C2: notifySonnet5Dropped has been called by the scheduler once if some
\* completed check had found = true, the call being made in the first such
\* check, and never otherwise; no later check calls it again.
NotifierInvokedOnce == notifyCalls = IF foundHistory = "never" THEN 0 ELSE 1

\* A check found the model again after a check that did not.
FoundAgainAfterRevert ==
  /\ foundHistory = "reverted"
  /\ lastStatus.found
  /\ previouslyFound
  /\ InFlight = {}
  /\ notifyCalls = 1

\* C3: however often and however interleaved notifySonnet5Dropped is called,
\* each channel's send function is called once, by the first call; the latch
\* is set by then and is never cleared.
NotifierLatch ==
  /\ [](/\ attempts.push <= 1
        /\ attempts.ntfy <= 1
        /\ notifyCalls > 0 =>
              notificationSent /\ attempts.push = 1 /\ attempts.ntfy = 1
        /\ notifyCalls = 0 => ~notificationSent /\ attempts.push = 0)
  /\ [][notificationSent => notificationSent']_vars

\* A second call was made while the first was awaiting the channels, and the
\* push broadcast of the first failed.
OverlappingInvocations ==
  /\ notifyCalls >= 2
  /\ notifyWaiter # Null
  /\ push.st = "rejected"
  /\ attempts.push = 1

\* C4: isChecking is true exactly while some performCheck is between its
\* guard and its finally block; the step in which a performCheck returns
\* leaves isChecking false, with or without a notifier call inside it.
CheckReturnsToIdle ==
  /\ [](isChecking <=> InFlight # {})
  /\ [][\A c \in Callers : pc[c] # "idle" /\ pc'[c] = "idle" => ~isChecking']_vars

\* A check that called the notifier has returned.
ReturnedAfterNotify ==
  /\ ~isChecking
  /\ InFlight = {}
  /\ notificationSent
  /\ attempts.ntfy = 1
  /\ sent.to \in {"check", "trigger"}
  /\ sent.ran

\* The results each adapter can give on the modelled upstreams.
AdapterResults ==
  << {ClassifyTable[m] : m \in Catalogs},
     {WebTable[p].value : p \in WebInputs},
     {HnTable[h].value : h \in HnInputs},
     {GitHubTable[f].value : f \in GitHubInputs} >>

ResultCombos ==
  {rs \in [1..4 -> UNION {AdapterResults[i] : i \in 1..4}] :
     \A i \in 1..4 : rs[i] \in AdapterResults[i]}

\* The result of the adapter of least index reporting found, if any.
FirstInOrder(rs) ==
  IF \A i \in 1..4 : ~rs[i].found THEN NotFound
  ELSE rs[CHOOSE i \in 1..4 : rs[i].found /\ \A j \in 1..(i - 1) : ~rs[j].found]

ReductionOnCombos ==
  \A rs \in ResultCombos : checkAllSourcesReduce(rs) = FirstInOrder(rs)

\* C5: on every combination of adapter results the reduction gives the result
\* of the first adapter in the order API, Web, HN, GitHub that reports found,
\* and NotFound when none does; the snapshot a run writes is made from it.
AggregatorPriority ==
  /\ []ReductionOnCombos
  /\ [][\A c \in Callers :
          Completes(c) => lastStatus' = Snapshot(FirstInOrder(Values(c)), now)]_vars

\* Adapters 1 and 3 both reported found and the run kept adapter 1's result.
ApiWinsOverHn ==
  \E c \in Callers :
     /\ pc[c] = "notify"
     /\ promise[c][API].value.found
     /\ promise[c][HN].value.found
     /\ result[c] = promise[c][API].value
     /\ lastStatus.source = ApiUrl

\* C6: the step that starts a run starts all four adapters; during the run an
\* adapter that has completed is not started again; the run gets its result
\* only in a step taken with all four completed.
FanOutFanIn ==
  [][\A c \in Callers :
       /\ pc[c] = "idle" /\ pc'[c] = "aggregate" =>
             \A i \in Adapters : promise'[c][i].status \in {"pending", "fulfilled"}
       /\ pc[c] = "aggregate" /\ pc'[c] = "aggregate" =>
             \A i \in Adapters :
                /\ promise[c][i].status = "fulfilled" => promise'[c][i] = promise[c][i]
                /\ promise'[c][i].status # "idle"
       /\ pc[c] = "aggregate" /\ pc'[c] # "aggregate" => AllFulfilled(c)]_vars

\* The first adapter has reported found while a later one is still running.
FoundWhileOthersRun ==
  \E c \in Callers :
     /\ pc[c] = "aggregate"
     /\ promise[c][API].status = "fulfilled"
     /\ promise[c][API].value.found
     /\ promise[c][GITHUB].status = "pending"

\* Every adapter gives a fulfilled promise on every answer of its upstream.
AdaptersFulfilOnInputs ==
  /\ \A p \in WebInputs : WebTable[p].status = "fulfilled"
  /\ \A h \in HnInputs : HnTable[h].status = "fulfilled"
  /\ \A f \in GitHubInputs : GitHubTable[f].status = "fulfilled"
  /\ \A k \in BOOLEAN : \A t \in Tags \cup {Null} : \A m \in Catalogs :
        \A resp \in ApiResponses(t) :
           checkAnthropicAPI(k, t, ClassifyTable[m], resp).settled.status = "fulfilled"

\* C7: no adapter promise is ever rejected, so Promise.all is never rejected;
\* an adapter whose requests all failed completes with NotFound.
AdaptersNeverRaise ==
  /\ AdaptersFulfilOnInputs
  /\ \A c \in Callers : \A i \in Adapters :
        /\ promise[c][i].status # "rejected"
        /\ i # API /\ promise[c][i].status = "fulfilled" =>
              promise[c][i].value = NotFound

\* A run whose adapters all met failing requests has its four results.
AllFailedAllFulfilled ==
  \E c \in Callers :
     /\ apiKeySet
     /\ lastEtag = Null
     /\ pc[c] = "aggregate"
     /\ AllFulfilled(c)
     /\ \A i \in Adapters : promise[c][i].value = NotFound

\* C8: the cached result is the classification of the entity that the cached
\* tag identifies.
CacheFromSameResponse ==
  lastEtag # Null => lastApiResult = ClassifyTable[Catalog(lastEtag)]

\* C9: the step in which a run's checkAllSources returns sets every field of
\* the snapshot from that result and the clock.
SnapshotOverwritten ==
  [][\A c \in Callers :
       Completes(c) => lastStatus' = Snapshot(checkAllSources(c), now)]_vars

\* A later check with the same found as before has renewed the timestamp.
TimestampRenewed ==
  /\ foundHistory = "never"
  /\ ~lastStatus.found
  /\ lastStatus.checkedAt > 0
  /\ InFlight = {}

\* The response to a POST /check carries the snapshot of a run made for it.
FromOwnRun(r) ==
  /\ r.ran
  /\ r.body = Snapshot(r.result, r.body.checkedAt)
  /\ r.body.checkedAt >= r.reqAt

\* C10 as stated: every response to POST /check carries the snapshot of a run
\* made for that request, written after the request arrived.
EveryCheckRequestRuns == sent.to = "check" => FromOwnRun(sent)

\* C10: a POST /check that arrives while no check is in flight is answered
\* with the snapshot of the run made for it, written after it arrived; one
\* that arrives during a check starts no run and is answered at once with the
\* snapshot as it is.
CheckRequestRunsUnlessInFlight ==
  sent.to = "check" =>
    /\ sent.body = lastStatus
    /\ IF sent.ran THEN FromOwnRun(sent) /\ ~isChecking
       ELSE isChecking /\ sent.reqAt = now

\* A POST /check was answered with the snapshot of its own, later, run.
ForcedRunAnswered ==
  /\ sent.to = "check"
  /\ sent.ran
  /\ sent.body.found
  /\ sent.body.checkedAt > sent.reqAt

\* C11: no performCheck is suspended on the notifier: the check that called
\* notifySonnet5Dropped has returned, and isChecking is released, without
\* waiting for the dispatches to finish.
NotifierNotAwaited == \A c \in Callers : pc[c] # "notify"

\* C12: while a check awaits the notifier the snapshot is the one that check
\* wrote from its aggregate result, no step of the channels changes it, and
\* when the notifier returns, whatever the channels did, the check ends
\* normally and its caller is answered with that snapshot.
NotifierLeavesSnapshot ==
  /\ [](\A c \in Callers :
          pc[c] = "notify" => lastStatus = Snapshot(result[c], lastStatus.checkedAt))
  /\ [][\A c \in Callers :
          pc[c] = "notify" =>
            /\ lastStatus' = lastStatus
            /\ pc'[c] = "idle" =>
                  /\ ~isChecking'
                  /\ c # "timer" => sent'.ran /\ sent'.body = lastStatus]_vars

\* Both channels have settled, the push broadcast by failing to load the
\* subscriptions, and the check is about to resume.
NotifierFailedCheckPending ==
  \E c \in Callers :
     /\ pc[c] = "notify"
     /\ ChannelsSettled
     /\ push.st = "rejected"
     /\ lastStatus.found

(***************************************************************************)
(* An outage: from the start of the process, or after a check that found   *)
(* the model on Hacker News and notified, every request of every adapter   *)
(* fails.                                                                  *)
(***************************************************************************)
HnFound == CHOOSE r \in {HnTable[h].value : h \in HnInputs} : r.found

\* The process at rest after its first check found the model on Hacker News.
FoundOnHn ==
  /\ now = 0
  /\ lastStatus = Snapshot(HnFound, 0)
  /\ isChecking = FALSE
  /\ previouslyFound = TRUE
  /\ lastEtag = Null
  /\ lastApiResult = NotFound
  /\ notificationSent = TRUE
  /\ subs = {"e1"}
  /\ InitBrowser
  /\ pc = [c \in Callers |-> "idle"]
  /\ reqAt = [c \in Callers |-> 0]
  /\ promise = [c \in Callers |-> NoPromises]
  /\ result = [c \in Callers |-> NotFound]
  /\ push = PushIdle
  /\ ntfy = "idle"
  /\ notifyWaiter = Null
  /\ sent = NoResponse
  /\ attempts = [push |-> 1, ntfy |-> 1]
  /\ notifyCalls = 1
  /\ foundHistory = "found"
  /\ classified = Unclassified(<< >>)
  /\ scraped = Unscraped(<< PageDown, PageDown, PageDown >>)
  /\ polled = Unpolled(<< Feed(FeedDown, FeedDown), Feed(FeedDown, FeedDown) >>)

InitOutage == Init \/ (apiKeySet \in BOOLEAN /\ vapidSet \in BOOLEAN /\ FoundOnHn)

NextOutage ==
  \/ Tick
  \/ TimerTick
  \/ PostCheck
  \/ \E authorized \in Authorizations : PostTrigger(authorized)
  \/ \E c \in Callers : \E resp \in ApiAnswersFaults[lastEtag] : ApiSettles(c, resp)
  \/ \E c \in Callers : \E pages \in WebFaults : WebSettles(c, pages)
  \/ \E c \in Callers : \E resp \in HnFaults : HnSettles(c, resp)
  \/ \E c \in Callers : \E feeds \in GitHubFaults : GitHubSettles(c, feeds)
  \/ \E c \in Callers : AfterAggregate(c)

SpecOutage == InitOutage /\ [][NextOutage]_vars

\* C13 as stated: while every adapter fails, the snapshot keeps the
\* checkedAt it had.
OutageKeepsTimestamp == lastStatus.checkedAt = 0

\* C13: a check in which every adapter fails completes like any other, every
\* adapter giving not-found: it overwrites the snapshot with found false,
\* model and source null and the current time, also over a snapshot with
\* found true.
OutageWritesNotFound ==
  /\ [](\A c \in Callers : \A i \in Adapters :
          promise[c][i].status = "fulfilled" => promise[c][i].value = NotFound)
  /\ [][\A c \in Callers :
          pc[c] = "aggregate" /\ pc'[c] # "aggregate" =>
             lastStatus' = Snapshot(NotFound, now)]_vars

\* A snapshot with found true was replaced during the outage, at a later time.
FoundReplacedInOutage ==
  /\ foundHistory = "reverted"
  /\ lastStatus = Snapshot(NotFound, 1)
  /\ InFlight = {}

(***************************************************************************)
(* index.ts: the status read, added to the process.                        *)
(***************************************************************************)
\* A handler that would answer only while no check is in flight.
GetStatusWhenIdle ==
  /\ ~isChecking
  /\ sent' = [NoResponse EXCEPT !.to = "status", !.code = 200, !.body = lastStatus,
                                !.reqAt = now]
  /\ UNCHANGED << config, browser, classified, scraped, polled, now, scheduler, cache, notifier, subs, calls, history >>

\* app.get("/status"): c.json(lastStatus).
GetStatus ==
  /\ sent' = [NoResponse EXCEPT !.to = "status", !.code = 200, !.body = lastStatus,
                                !.reqAt = now]
  /\ UNCHANGED << config, browser, classified, scraped, polled, now, scheduler, cache, notifier, subs, calls, history >>

NextStatus == Next \/ GetStatus

SpecStatus == Init /\ [][NextStatus]_vars

\* The results a check can have on the modelled upstreams.
CheckResults == UNION {AdapterResults[i] : i \in 1..4} \cup {NotFound}

\* C14: GET /status can be served in every state; its answer is lastStatus as
\* it is, which is the initial snapshot until a check completes and from then
\* on the record that the last completed check wrote in one step from its
\* result, also while a later check is in flight.
StatusReadWhole ==
  /\ [](ENABLED GetStatus)
  /\ [](/\ CheckResult(lastStatus.found, lastStatus.model, lastStatus.source)
             \in CheckResults
        /\ sent.to = "status" => sent.code = 200 /\ sent.body = lastStatus)
  /\ [][lastStatus' # lastStatus =>
          \E c \in Callers :
             Completes(c) /\ lastStatus' = Snapshot(checkAllSources(c), now)]_vars

\* The snapshot of an earlier check was read while a later check, whose
\* adapters have partly completed, was in flight.
ReadDuringCheck ==
  /\ sent.to = "status"
  /\ isChecking
  /\ sent.body.found
  /\ \E c \in Callers :
        /\ pc[c] = "aggregate"
        /\ promise[c][WEB].status = "fulfilled"
        /\ ~promise[c][WEB].value.found
        /\ promise[c][HN].status = "pending"

\* C15 as stated: a subscription of the broadcast is out of the store exactly
\* if its send failed with 410 or 404.
DeletedIffGone ==
  \A e \in push.loaded : e \notin subs <=> push.results[e].code \in Gone

\* C15: a subscription of the broadcast is out of the store exactly if its
\* send failed with 410 or 404 and the delete made for it worked; one whose
\* send succeeded, failed otherwise or has not settled is in the store.
DeletedIffGoneAndRemoved ==
  \A e \in push.loaded :
     e \notin subs <=> push.results[e].code \in Gone /\ push.results[e].removed

\* One subscription was deleted after a 410, another kept after a 500.
GoneDeletedOtherKept ==
  \E e1, e2 \in push.loaded :
     /\ push.results[e1].code = 410
     /\ e1 \notin subs
     /\ push.results[e2].code = 500
     /\ e2 \in subs

\* The subscriptions of the broadcast whose send has settled.
Settled == {e \in Endpoints : push.results[e] # NoSend}

\* C16: every loaded subscription is either still being sent to or has one
\* settled send, whatever the other sends did; a settled send is not made
\* again; the broadcast is fulfilled only with no send left; and the two
\* counts are those of the sends that succeeded and failed, adding up to the
\* number loaded at the end.
SettleAll ==
  /\ [](/\ push.pending \subseteq push.loaded
        /\ Settled = push.loaded \ push.pending
        /\ push.st = "sending" <=> push.pending # {}
        /\ push.succeeded = Cardinality({e \in Settled : push.results[e].code = 0})
        /\ push.failed = Cardinality({e \in Settled : push.results[e].code # 0})
        /\ push.st = "fulfilled" =>
              push.succeeded + push.failed = Cardinality(push.loaded))
  /\ [][\A e \in Settled : push'.results[e] = push.results[e] \/ push' = PushIdle]_vars

\* A broadcast to two subscriptions has finished with one send succeeded and
\* one failed.
OneSentOneFailed ==
  /\ push.st = "fulfilled"
  /\ Cardinality(push.loaded) = 2
  /\ push.succeeded = 1
  /\ push.failed = 1

\* C17: the call that passes the latch starts both channels; a rejected
\* push broadcast leaves the topic post attempted and able to finish, a
\* failed topic post leaves every pending push send able to finish, and once
\* both have settled, however, the caller of notifySonnet5Dropped resumes.
ChannelsIsolated ==
  /\ attempts.push = attempts.ntfy
  /\ push.st = "rejected" => ntfy \in {"posting", "sent", "failed"}
  /\ push.st = "rejected" /\ ntfy = "posting" => ENABLED NtfyPosts(TRUE)
  /\ ntfy = "failed" =>
        \A e \in push.pending : ENABLED PushSends(e, 0, FALSE)
  /\ ntfy = "failed" /\ push.st = "loading" => ENABLED PushLoads(TRUE)
  /\ \A c \in Callers :
        /\ pc[c] = "notify"
        /\ notifyWaiter = c
        /\ push.st \in {"fulfilled", "rejected"}
        /\ ntfy \in {"sent", "failed"}
        => ENABLED InvokeReturns(c)

\* The topic post failed and the push broadcast still delivered.
PostFailedPushSent ==
  /\ ntfy = "failed"
  /\ push.st = "fulfilled"
  /\ push.succeeded >= 1
  /\ notifyWaiter # Null

\* C18: without an API key the promise of the Structured-API adapter is never
\* pending on a request and is fulfilled with NotFound from the start of the
\* check, lastEtag and lastApiResult keep their initial values, and a check
\* completes with the reduction of the other three results.
NoKeyNoRequest ==
  /\ [](~apiKeySet =>
          /\ lastEtag = Null
          /\ lastApiResult = NotFound
          /\ \A c \in Callers :
                /\ promise[c][API].status # "pending"
                /\ promise[c][API].value = NotFound
                /\ \A resp \in ApiAnswers[lastEtag] : ~ENABLED ApiSettles(c, resp))
  /\ [][\A c \in Callers :
          ~apiKeySet /\ Completes(c) =>
             lastStatus' = Snapshot(ReduceFrom(Values(c), WEB), now)]_vars

\* Without a key a check has completed with the result of Hacker News.
NoKeyFoundOnHn ==
  /\ ~apiKeySet
  /\ lastStatus.found
  /\ lastStatus.source = HnFound.source
  /\ InFlight = {}

\* { found: true, model: "claude-sonnet-5-preview", source: <the API URL> }
ApiFound == CheckResult(TRUE, "claude-sonnet-5-preview", ApiUrl)

\* The catalog of etag-b holds the entity, the classifier matches its id, and
\* the adapter's classification of that catalog is ApiFound.
EntityClassified ==
  /\ \E k \in 1..Len(Catalog("etag-b")) :
        Catalog("etag-b")[k] = ModelEntry("claude-sonnet-5-preview", "Claude Sonnet 5")
  /\ isSonnet5(Chars("claude-sonnet-5-preview"))
  /\ ClassifyTable[Catalog("etag-b")] = ApiFound

\* C19: the adapter fulfils with ApiFound on a 200 answer carrying the entity;
\* a check that completes with that result while previouslyFound is false
\* writes it to the snapshot, sets previouslyFound, and calls the notifier for
\* the first time, which starts each channel once; no channel is started a
\* second time.
EndToEndApiFound ==
  /\ [](EntityClassified /\ attempts.push <= 1 /\ attempts.ntfy <= 1)
  /\ [][\A c \in Callers :
          /\ /\ promise[c][API].status = "pending"
             /\ lastEtag # "etag-b"
             /\ lastEtag' = "etag-b"
             => promise'[c][API] = Fulfilled(ApiFound)
          /\ Completes(c) /\ promise[c][API].value = ApiFound /\ ~previouslyFound =>
                /\ lastStatus' = Snapshot(ApiFound, now)
                /\ previouslyFound'
                /\ notifyCalls = 0 /\ notifyCalls' = 1
                /\ notificationSent'
                /\ attempts' = [push |-> 1, ntfy |-> 1]
                /\ pc'[c] = "notify"]_vars

\* The first check to find the model found it in the catalog and is notifying.
ApiFoundNotifying ==
  \E c \in Callers :
     /\ pc[c] = "notify"
     /\ result[c] = ApiFound
     /\ lastStatus.model = "claude-sonnet-5-preview"
     /\ lastStatus.source = ApiUrl
     /\ previouslyFound
     /\ attempts = [push |-> 1, ntfy |-> 1]
     /\ foundHistory = "found"

(***************************************************************************)
(* sources.ts: isSonnet5 on its own.  The text is any concatenation of at  *)
(* most MaxTokens of the tokens below, which make every inclusion pattern  *)
(* and every exclusion pattern match, alone and together.                  *)
(***************************************************************************)
Tokens ==
  { <<"C","l","a","u","d","e">>,
    <<"s","o","n","n","e","t","-","5">>,
    <<"S","o","n","n","e","t">>,
    <<"3",".","5">>,
    <<"4",".","5">>,
    <<"5">>,
    <<"-">>,
    <<" ">> }

RECURSIVE TextsOf(_)
TextsOf(n) ==
  IF n = 0 THEN {<< >>}
  ELSE LET shorter == TextsOf(n - 1)
       IN  shorter \cup {t \o tok : t \in shorter, tok \in Tokens}

Texts == TextsOf(MaxTokens)

InitClassifier ==
  /\ apiKeySet = FALSE
  /\ vapidSet = FALSE
  /\ now = 0
  /\ lastStatus = Snapshot(NotFound, 0)
  /\ isChecking = FALSE
  /\ previouslyFound = FALSE
  /\ lastEtag = Null
  /\ lastApiResult = NotFound
  /\ notificationSent = FALSE
  /\ subs = {}
  /\ InitBrowser
  /\ pc = [c \in Callers |-> "idle"]
  /\ reqAt = [c \in Callers |-> 0]
  /\ promise = [c \in Callers |-> NoPromises]
  /\ result = [c \in Callers |-> NotFound]
  /\ push = PushIdle
  /\ ntfy = "idle"
  /\ notifyWaiter = Null
  /\ sent = NoResponse
  /\ attempts = [push |-> 0, ntfy |-> 0]
  /\ notifyCalls = 0
  /\ foundHistory = "never"
  /\ classified \in {Unclassified(t) : t \in Texts}
  /\ scraped = Unscraped(<< PageDown, PageDown, PageDown >>)
  /\ polled = Unpolled(<< Feed(FeedDown, FeedDown), Feed(FeedDown, FeedDown) >>)

\* A call of isSonnet5(text) returns.
Classify ==
  /\ ~classified.returned
  /\ classified' = [classified EXCEPT !.returned = TRUE,
                                      !.value = isSonnet5(classified.text)]
  /\ UNCHANGED << config, browser, scraped, polled, now, scheduler, cache, notifier, subs, calls,
                  sent, history >>

NextClassifier == Classify

SpecClassifier == InitClassifier /\ [][NextClassifier]_vars

\* Some exclusion pattern matches the text.
Excluded(text) ==
  \E e \in 1..Len(EXCLUDE_PATTERNS) : RegexTest(EXCLUDE_PATTERNS[e], text)

\* Some inclusion pattern matches the text.
Included(text) ==
  \E p \in 1..Len(SONNET_5_PATTERNS) : RegexTest(SONNET_5_PATTERNS[p], text)

\* C20: isSonnet5 returns false on every text that an exclusion pattern
\* matches, whether or not an inclusion pattern matches it too.
ExclusionPriority ==
  classified.returned /\ Excluded(classified.text) => ~classified.value

\* isSonnet5 has returned false on a text that an exclusion pattern and an
\* inclusion pattern both match.
ExcludedThoughIncluded ==
  /\ classified.returned
  /\ Excluded(classified.text)
  /\ Included(classified.text)
  /\ ~classified.value

(***************************************************************************)
(* sources.ts: isSonnet5 on the spellings of the inclusion patterns.  A    *)
(* spelling is an ordering of the words, a separator in each gap, and a    *)
(* letter case for each word; it stands between a Before and an After      *)
(* that keep it a whole word.                                              *)
(***************************************************************************)
UpperOf ==
  [a |-> "A", b |-> "B", c |-> "C", d |-> "D", e |-> "E", f |-> "F", g |-> "G",
   h |-> "H", i |-> "I", j |-> "J", k |-> "K", l |-> "L", m |-> "M", n |-> "N",
   o |-> "O", p |-> "P", q |-> "Q", r |-> "R", s |-> "S", t |-> "T", u |-> "U",
   v |-> "V", w |-> "W", x |-> "X", y |-> "Y", z |-> "Z"]

Casings == {"lower", "upper", "capital", "odd", "even"}

\* Whether the k-th letter of a word is written in upper case.
UpperAt(casing, k) ==
  CASE casing = "lower"   -> FALSE
    [] casing = "upper"   -> TRUE
    [] casing = "capital" -> k = 1
    [] casing = "odd"     -> k % 2 = 1
    [] casing = "even"    -> k % 2 = 0

Cased(word, casing) ==
  [k \in 1..Len(word) |-> IF UpperAt(casing, k) THEN UpperOf[word[k]] ELSE word[k]]

ClaudeWord == <<"c","l","a","u","d","e">>

SonnetWord == <<"s","o","n","n","e","t">>

\* hyphen, underscore, no separator
Separators == { <<"-">>, <<"_">>, << >> }

\* sonnet 5 / claude 5 sonnet / claude sonnet 5
Spellings ==
  {Cased(SonnetWord, cs) \o s1 \o <<"5">> : cs \in Casings, s1 \in Separators}
  \cup
  {Cased(ClaudeWord, cc) \o sp[1] \o <<"5">> \o sp[2] \o Cased(SonnetWord, cs) :
     cc \in Casings, cs \in Casings, sp \in Separators \X Separators}
  \cup
  {Cased(ClaudeWord, cc) \o sp[1] \o Cased(SonnetWord, cs) \o sp[2] \o <<"5">> :
     cc \in Casings, cs \in Casings, sp \in Separators \X Separators}

Before == { << >>, <<"t","r","y"," ">>, <<"(">> }

After == { << >>, <<" ","n","o","w">>, <<".">>, <<"-","p","r","e","v","i","e","w">> }

SpellingTexts == {b \o sp \o a : b \in Before, sp \in Spellings, a \in After}

InitSpellings ==
  /\ apiKeySet = FALSE
  /\ vapidSet = FALSE
  /\ now = 0
  /\ lastStatus = Snapshot(NotFound, 0)
  /\ isChecking = FALSE
  /\ previouslyFound = FALSE
  /\ lastEtag = Null
  /\ lastApiResult = NotFound
  /\ notificationSent = FALSE
  /\ subs = {}
  /\ InitBrowser
  /\ pc = [c \in Callers |-> "idle"]
  /\ reqAt = [c \in Callers |-> 0]
  /\ promise = [c \in Callers |-> NoPromises]
  /\ result = [c \in Callers |-> NotFound]
  /\ push = PushIdle
  /\ ntfy = "idle"
  /\ notifyWaiter = Null
  /\ sent = NoResponse
  /\ attempts = [push |-> 0, ntfy |-> 0]
  /\ notifyCalls = 0
  /\ foundHistory = "never"
  /\ classified \in {Unclassified(t) : t \in SpellingTexts}
  /\ scraped = Unscraped(<< PageDown, PageDown, PageDown >>)
  /\ polled = Unpolled(<< Feed(FeedDown, FeedDown), Feed(FeedDown, FeedDown) >>)

SpecSpellings == InitSpellings /\ [][NextClassifier]_vars

\* C21: isSonnet5 returns true on every text made of a spelling of an
\* inclusion pattern (each ordering, each separator, each letter case)
\* standing as a whole word, no exclusion pattern matching the text.
SpellingsMatch ==
  classified.returned /\ ~Excluded(classified.text) => classified.value

\* isSonnet5 has returned true on "try CLAUDE_5_sOnNeT now".
UnderscoredUpperMatched ==
  /\ classified.returned
  /\ classified.value
  /\ classified.text = <<"t","r","y"," ">>
                       \o <<"C","L","A","U","D","E","_","5","_",
                            "s","O","n","N","e","T">>
                       \o <<" ","n","o","w">>

(***************************************************************************)
(* sources.ts: checkAnthropicWebsite on its own.  Each of the three pages  *)
(* is one of PageSamples; the pages of FragmentPages hold one fragment     *)
(* that begins with "Sonnet-5".                                            *)
(***************************************************************************)
FragmentPages ==
  { "<p>Sonnet-5 ...(150)</p>",
    "<p>Sonnet-5 ...(199)</p>",
    "<p>Sonnet-5 ...(200)</p>",
    "<p>Sonnet-5 ...(250)</p>",
    "<p>  Sonnet-5 ...(196)&nbsp;  </p>" }

PageSamples ==
  { PageDown,
    PageResponse("http", FALSE, "<p>Sonnet-5 ...(150)</p>"),
    PageResponse("http", TRUE, "<p>News &amp; more</p>") }
  \cup {PageResponse("http", TRUE, html) : html \in FragmentPages}

\* The indices of the pages the loop over urls requests from index u on.
RECURSIVE WebFetched(_, _)
WebFetched(pages, u) ==
  IF u > Len(WebUrls) THEN << >>
  ELSE IF pages[u].kind = "neterr" THEN << u >> \o WebFetched(pages, u + 1)
  ELSE IF ~pages[u].ok THEN << u >> \o WebFetched(pages, u + 1)
  ELSE IF PageMatches(Chars(pages[u].html))
         THEN << u >>
         ELSE << u >> \o WebFetched(pages, u + 1)

InitScrape ==
  /\ apiKeySet = FALSE
  /\ vapidSet = FALSE
  /\ now = 0
  /\ lastStatus = Snapshot(NotFound, 0)
  /\ isChecking = FALSE
  /\ previouslyFound = FALSE
  /\ lastEtag = Null
  /\ lastApiResult = NotFound
  /\ notificationSent = FALSE
  /\ subs = {}
  /\ InitBrowser
  /\ pc = [c \in Callers |-> "idle"]
  /\ reqAt = [c \in Callers |-> 0]
  /\ promise = [c \in Callers |-> NoPromises]
  /\ result = [c \in Callers |-> NotFound]
  /\ push = PushIdle
  /\ ntfy = "idle"
  /\ notifyWaiter = Null
  /\ sent = NoResponse
  /\ attempts = [push |-> 0, ntfy |-> 0]
  /\ notifyCalls = 0
  /\ foundHistory = "never"
  /\ classified = Unclassified(<< >>)
  /\ scraped \in {Unscraped(pages) : pages \in PageSamples \X PageSamples \X PageSamples}
  /\ polled = Unpolled(<< Feed(FeedDown, FeedDown), Feed(FeedDown, FeedDown) >>)

\* A call of checkAnthropicWebsite() returns.
Scrape ==
  /\ ~scraped.returned
  /\ scraped' = [scraped EXCEPT !.returned = TRUE,
                                !.value = checkAnthropicWebsite(scraped.pages).value,
                                !.fetched = WebFetched(scraped.pages, 1)]
  /\ UNCHANGED << config, browser, classified, polled, now, scheduler, cache, notifier, subs,
                  calls, sent, history >>

NextScrape == Scrape

SpecScrape == InitScrape /\ [][NextScrape]_vars

\* The fragment between <p> and </p> of a page of FragmentPages, cleaned.
CleanedFragment == [html \in FragmentPages |-> Cleaned(SplitAngle(Chars(html))[3])]

\* The fragments have the lengths their names say (196 for the one written
\* with an entity and blanks around it, 206 characters before cleaning), and
\* the classifier matches every one of them.
FragmentsAsNamed ==
  /\ Len(CleanedFragment["<p>Sonnet-5 ...(150)</p>"]) = 150
  /\ Len(CleanedFragment["<p>Sonnet-5 ...(199)</p>"]) = 199
  /\ Len(CleanedFragment["<p>Sonnet-5 ...(200)</p>"]) = 200
  /\ Len(CleanedFragment["<p>Sonnet-5 ...(250)</p>"]) = 250
  /\ Len(CleanedFragment["<p>  Sonnet-5 ...(196)&nbsp;  </p>"]) = 196
  /\ Len(SplitAngle(Chars("<p>  Sonnet-5 ...(196)&nbsp;  </p>"))[3]) = 206
  /\ \A html \in FragmentPages : isSonnet5(CleanedFragment[html])

\* Page u answered 2xx with a matching fragment whose cleaned length is below 200.
Reportable(pages, u) ==
  /\ pages[u].kind = "http"
  /\ pages[u].ok
  /\ pages[u].html \in FragmentPages
  /\ Len(CleanedFragment[pages[u].html]) < 200

\* C22: checkAnthropicWebsite reports a page exactly when the page holds a
\* matching fragment whose cleaned length is below 200: the fragments of 200
\* and 250 characters are skipped and do not make their page match, those of
\* 150, 196 and 199 are reported.
FragmentLengthFilter ==
  /\ FragmentsAsNamed
  /\ scraped.returned =>
       /\ scraped.value.found =>
            \E u \in 1..Len(WebUrls) :
               scraped.value.source = WebUrls[u] /\ Reportable(scraped.pages, u)
       /\ (\E u \in 1..Len(WebUrls) : Reportable(scraped.pages, u)) => scraped.value.found

\* The pages with the fragments of 250 and 200 characters were passed over and
\* the page with the fragment of 150 characters was reported.
LongSkippedShortReported ==
  /\ scraped.returned
  /\ scraped.pages[1] = PageResponse("http", TRUE, "<p>Sonnet-5 ...(250)</p>")
  /\ scraped.pages[2] = PageResponse("http", TRUE, "<p>Sonnet-5 ...(200)</p>")
  /\ scraped.pages[3] = PageResponse("http", TRUE, "<p>Sonnet-5 ...(150)</p>")
  /\ scraped.value = CheckResult(TRUE, Null, WebUrls[3])

\* A result or snapshot with found = true names a model or a source.
Informative(r) == r.found => r.model # Null \/ r.source # Null

\* Every result an adapter gives on the modelled upstreams, and every
\* reduction of four of them, is informative.
ResultsInformative ==
  /\ \A i \in 1..4 : \A r \in AdapterResults[i] : Informative(r)
  /\ \A rs \in ResultCombos : Informative(checkAllSourcesReduce(rs))

\* C23: every result with found = true that an adapter or checkAllSources
\* returns, and every snapshot with found = true (held or sent), has a model
\* or a source other than null.
FoundIsInformative ==
  /\ ResultsInformative
  /\ Informative(lastStatus)
  /\ Informative(lastApiResult)
  /\ Informative(sent.body)
  /\ \A c \in Callers :
        /\ Informative(result[c])
        /\ \A i \in Adapters : Informative(promise[c][i].value)

\* The snapshot says found with no model and the link of the discussion.
FoundWithSourceOnly ==
  /\ lastStatus.found
  /\ lastStatus.model = Null
  /\ lastStatus.source = "https://news.ycombinator.com/item?id=101"
  /\ "https://github.com/anthropics/anthropic-sdk-python/releases"
        \in {r.source : r \in AdapterResults[GITHUB]}
  /\ "https://github.com/anthropics/anthropic-sdk-typescript"
        \in {r.source : r \in AdapterResults[GITHUB]}

\* The pages of the call that answered 2xx with a reportable fragment.
ReportablePages == {u \in 1..Len(WebUrls) : Reportable(scraped.pages, u)}

\* C24: checkAnthropicWebsite requests its pages in listed order; a request
\* that throws or is answered non-2xx, like a page without a match, is
\* followed by the request of the next page; the source returned is the URL
\* of the first page in the list with a matching fragment, and that page is
\* the last one requested.
PagesInListedOrder ==
  scraped.returned =>
    /\ scraped.fetched = [k \in 1..Len(scraped.fetched) |-> k]
    /\ IF ReportablePages = {}
         THEN /\ scraped.value = NotFound
              /\ Len(scraped.fetched) = Len(WebUrls)
         ELSE /\ scraped.value = CheckResult(TRUE, Null, WebUrls[First(ReportablePages)])
              /\ Len(scraped.fetched) = First(ReportablePages)

\* The first request threw, the second page matched and was returned, and the
\* third page, which matches too, was not requested.
SecondPageAfterFailure ==
  /\ scraped.returned
  /\ scraped.pages[1] = PageDown
  /\ scraped.pages[2] = PageResponse("http", TRUE, "<p>Sonnet-5 ...(199)</p>")
  /\ scraped.pages[3] = PageResponse("http", TRUE, "<p>Sonnet-5 ...(150)</p>")
  /\ scraped.value.source = WebUrls[2]
  /\ scraped.fetched = << 1, 2 >>

(***************************************************************************)
(* sources.ts: checkGitHubSDK on its own.  Each repository answers the     *)
(* releases request with one of ReleaseSamples and the commits request     *)
(* with one of CommitSamples.                                              *)
(***************************************************************************)
RepoUrl(r) == "https://github.com/" \o Repos[r]

ReleaseWithUrl(r) ==
  FeedResponse("http", TRUE, "ok",
               << Release("v1.0", "v1.0", Null, Null),
                  Release("v1.0", "v1.0", "Add claude-sonnet-5",
                          RepoUrl(r) \o "/releases/tag/v1.0") >>)

ReleaseWithoutUrl ==
  FeedResponse("http", TRUE, "ok", << Release(Null, Null, "Add claude-sonnet-5", Null) >>)

\* The answers in which a release matches.
MatchingReleases(r) == {ReleaseWithUrl(r), ReleaseWithoutUrl}

ReleaseSamples(r) ==
  {FeedDown, FeedError, FeedResponse("http", TRUE, "bad", << >>), NoReleases}
    \cup MatchingReleases(r)

CommitWithUrl(r) ==
  FeedResponse("http", TRUE, "ok",
               << Commit("fix typo", Null),
                  Commit("add sonnet-5 to the model list", RepoUrl(r) \o "/commit/abc") >>)

CommitWithoutUrl ==
  FeedResponse("http", TRUE, "ok", << Commit("add sonnet-5 to the model list", Null) >>)

\* The answers in which a commit message matches.
MatchingCommits(r) == {CommitWithUrl(r), CommitWithoutUrl}

CommitSamples(r) ==
  {FeedDown, FeedResponse("http", TRUE, "bad", << >>), NoCommits}
    \cup MatchingCommits(r)

FeedSamples(r) ==
  {Feed(rel, com) : rel \in ReleaseSamples(r), com \in CommitSamples(r)}

Request(r, what) == [repo |-> r, what |-> what]

\* The requests the loop over repos makes from index r on.
RECURSIVE GitHubFetched(_, _)
GitHubFetched(feeds, r) ==
  IF r > Len(Repos) THEN << >>
  ELSE LET rel == feeds[r].releases
           com == feeds[r].commits
       IN  IF rel.kind = "neterr" \/ ~rel.ok \/ rel.payload = "bad"
             THEN << Request(r, "releases") >> \o GitHubFetched(feeds, r + 1)
           ELSE IF ReleaseHits(rel.items) # {}
             THEN << Request(r, "releases") >>
           ELSE IF com.kind = "neterr" \/ ~com.ok \/ com.payload = "bad"
                   \/ CommitHits(com.items) = {}
             THEN << Request(r, "releases"), Request(r, "commits") >>
                    \o GitHubFetched(feeds, r + 1)
           ELSE << Request(r, "releases"), Request(r, "commits") >>

InitFeeds ==
  /\ apiKeySet = FALSE
  /\ vapidSet = FALSE
  /\ now = 0
  /\ lastStatus = Snapshot(NotFound, 0)
  /\ isChecking = FALSE
  /\ previouslyFound = FALSE
  /\ lastEtag = Null
  /\ lastApiResult = NotFound
  /\ notificationSent = FALSE
  /\ subs = {}
  /\ InitBrowser
  /\ pc = [c \in Callers |-> "idle"]
  /\ reqAt = [c \in Callers |-> 0]
  /\ promise = [c \in Callers |-> NoPromises]
  /\ result = [c \in Callers |-> NotFound]
  /\ push = PushIdle
  /\ ntfy = "idle"
  /\ notifyWaiter = Null
  /\ sent = NoResponse
  /\ attempts = [push |-> 0, ntfy |-> 0]
  /\ notifyCalls = 0
  /\ foundHistory = "never"
  /\ classified = Unclassified(<< >>)
  /\ scraped = Unscraped(<< PageDown, PageDown, PageDown >>)
  /\ polled \in {Unpolled(<< f1, f2 >>) : f1 \in FeedSamples(1), f2 \in FeedSamples(2)}

\* A call of checkGitHubSDK() returns.
Poll ==
  /\ ~polled.returned
  /\ polled' = [polled EXCEPT !.returned = TRUE,
                              !.value = checkGitHubSDK(polled.feeds).value,
                              !.fetched = GitHubFetched(polled.feeds, 1)]
  /\ UNCHANGED << config, browser, classified, scraped, now, scheduler, cache, notifier, subs,
                  calls, sent, history >>

NextFeeds == Poll

SpecFeeds == InitFeeds /\ [][NextFeeds]_vars

\* The releases request of repository r was answered with a list of releases.
ReleasesListed(r) == ~FeedFails(polled.feeds[r].releases)

ReleaseMatches(r) == polled.feeds[r].releases \in MatchingReleases(r)

CommitMatches(r) == polled.feeds[r].commits \in MatchingCommits(r)

\* The URL of the matching release of repository r: html_url, or the
\* repository's releases page when the release has none.
ReleaseSource(r) ==
  IF polled.feeds[r].releases = ReleaseWithUrl(r)
    THEN RepoUrl(r) \o "/releases/tag/v1.0"
    ELSE RepoUrl(r) \o "/releases"

\* The URL of the matching commit of repository r: html_url, or the
\* repository's page when the commit has none.
CommitSource(r) ==
  IF polled.feeds[r].commits = CommitWithUrl(r)
    THEN RepoUrl(r) \o "/commit/abc"
    ELSE RepoUrl(r)

SourceOf(r) == IF ReleaseMatches(r) THEN ReleaseSource(r) ELSE CommitSource(r)

\* The call has visited the repositories in listed order up to the first of
\* `matching` (all of them when it is empty), has asked for the commits of
\* exactly the visited repositories of `asked`, after their releases, and has
\* returned the match of the first of `matching`.
VisitedInOrder(matching, asked) ==
  LET last == IF matching = {} THEN Len(Repos) ELSE First(matching)
      reqs == {polled.fetched[k] : k \in 1..Len(polled.fetched)}
  IN  /\ reqs = {Request(r, "releases") : r \in 1..last}
                  \cup {Request(r, "commits") : r \in asked \cap 1..last}
      /\ \A i, j \in 1..Len(polled.fetched) :
            i < j => \/ polled.fetched[i].repo < polled.fetched[j].repo
                     \/ /\ polled.fetched[i].repo = polled.fetched[j].repo
                        /\ polled.fetched[i].what = "releases"
                        /\ polled.fetched[j].what = "commits"
      /\ polled.value = IF matching = {} THEN NotFound
                        ELSE CheckResult(TRUE, Null, SourceOf(First(matching)))

\* C25 as claimed: the commits of every repository in which no release
\* matches are checked before the next repository.
CommitsCheckedWheneverNoReleaseMatches ==
  polled.returned =>
    VisitedInOrder({r \in 1..Len(Repos) : ReleaseMatches(r) \/ CommitMatches(r)},
                   {r \in 1..Len(Repos) : ~ReleaseMatches(r)})

\* C25: checkGitHubSDK visits the repositories in listed order; in a
\* repository whose releases request is answered with a list in which no
\* release matches it checks the commit messages before moving on, and a
\* repository whose releases request fails is passed over without its
\* commits; it returns the first match (release before commit within a
\* repository) with the URL of that release or commit.
CommitsCheckedAfterListedReleases ==
  polled.returned =>
    VisitedInOrder({r \in 1..Len(Repos) :
                      \/ ReleaseMatches(r)
                      \/ ReleasesListed(r) /\ CommitMatches(r)},
                   {r \in 1..Len(Repos) : ReleasesListed(r) /\ ~ReleaseMatches(r)})

\* No release of the first repository matched, its commits were asked for and
\* did not match; the second repository's release matched before its commits,
\* which match too, were asked for.
SecondRepositoryRelease ==
  /\ polled.returned
  /\ polled.feeds[1] = Feed(NoReleases, NoCommits)
  /\ polled.feeds[2] = Feed(ReleaseWithUrl(2), CommitWithUrl(2))
  /\ polled.value.source = RepoUrl(2) \o "/releases/tag/v1.0"
  /\ polled.fetched = << Request(1, "releases"), Request(1, "commits"),
                         Request(2, "releases") >>

\* A secret is configured and the header is not exactly "Bearer <secret>".
BadCredentials ==
  {sh \in Secrets \X Headers :
     sh[1] # Null /\ sh[1] # "" /\ sh[2] # "Bearer " \o sh[1]}

\* C26: a POST /trigger with a secret configured and any other header than
\* "Bearer <secret>" is answered 401, and a 401 starts no check and changes
\* neither the snapshot, the ever-found flag, the latch nor anything else; an
\* accepted POST /trigger starts a check only while none is in flight, as
\* POST /check does, and is otherwise answered with the snapshot unchanged.
TriggerGated ==
  /\ []((ENABLED PostTrigger(TRUE)) = (ENABLED PostCheck))
  /\ [][/\ \A sh \in BadCredentials :
              PostTrigger(Authorized(sh[1], sh[2])) => sent'.to = "trigger" /\ sent'.code = 401
        /\ sent'.to = "trigger" /\ sent'.code = 401 =>
              UNCHANGED << scheduler, cache, notifier, subs, calls, history >>
        /\ pc["trigger"] = "idle" /\ pc'["trigger"] # "idle" =>
              /\ ~isChecking /\ isChecking'
              /\ pc'["trigger"] = "aggregate"
              /\ \A i \in Adapters :
                    promise'["trigger"][i] =
                       IF i = API /\ ~apiKeySet THEN Fulfilled(NotFound) ELSE Pending
              /\ UNCHANGED << lastStatus, previouslyFound, notificationSent, cache >>
        /\ PostTrigger(TRUE) /\ isChecking =>
              /\ sent' = Response("trigger", lastStatus, now, FALSE, NotFound)
              /\ UNCHANGED << scheduler, cache, notifier, subs, calls, history >>]_vars

\* A POST /trigger was answered 401 after the model had been found: no check
\* is in flight and the snapshot still says found.
TriggerRejected ==
  /\ sent.to = "trigger"
  /\ sent.code = 401
  /\ ~isChecking
  /\ lastStatus.found
  /\ previouslyFound
  /\ notificationSent
  /\ \A c \in Callers : pc[c] = "idle"

\* The aggregator of caller c has the result of every adapter, and only the
\* Structured-API adapter reports found.
OnlyApiFound(c) ==
  /\ Completes(c)
  /\ promise[c][API].value.found
  /\ \A i \in Adapters \ {API} : ~promise[c][i].value.found

\* C27 as claimed: when only the Structured-API adapter matches, the snapshot
\* written has found true and source null.
ApiOnlySourceNull ==
  [][\A c \in Callers :
       OnlyApiFound(c) => lastStatus'.found /\ lastStatus'.source = Null]_vars

\* C27: when only the Structured-API adapter matches, the aggregate result
\* and the snapshot written from it have found true, the matched id as model
\* and the URL of the API endpoint as source.
ApiOnlySourceIsApiUrl ==
  /\ [](\A m \in Catalogs : ClassifyTable[m].found => ClassifyTable[m].source = ApiUrl)
  /\ [][\A c \in Callers :
          OnlyApiFound(c) =>
             /\ checkAllSources(c) = promise[c][API].value
             /\ lastStatus'.found
             /\ lastStatus'.model = promise[c][API].value.model
             /\ lastStatus'.source = ApiUrl]_vars

\* A check in which only the Structured-API adapter matched has written its
\* snapshot.
ApiOnlyWritten ==
  \E c \in Callers :
     /\ pc[c] = "notify"
     /\ promise[c][API].value.found
     /\ \A i \in Adapters \ {API} : promise[c][i] = Fulfilled(NotFound)
     /\ lastStatus.found
     /\ lastStatus.source = ApiUrl

\* C28: in every state between two steps of the server, and in every answer
\* of GET /status, a snapshot with found = true comes with previouslyFound
\* and notificationSent set and both channels started; previouslyFound and
\* notificationSent are equal in every state and never go back to false
\* (resetNotificationSent has no caller).
FoundImpliesFlagAndLatch ==
  /\ [](/\ lastStatus.found => previouslyFound /\ notificationSent
        /\ previouslyFound = notificationSent
        /\ notificationSent => attempts.push >= 1 /\ attempts.ntfy >= 1
        /\ sent.to = "status" =>
              /\ sent.body = lastStatus
              /\ sent.body.found => previouslyFound /\ notificationSent)
  /\ [][/\ previouslyFound => previouslyFound'
        /\ notificationSent => notificationSent']_vars

\* GET /status has answered found while the notifier of the first finding
\* check is still dispatching.
FoundReadWhileDispatching ==
  /\ sent.to = "status"
  /\ sent.body.found
  /\ previouslyFound
  /\ notificationSent
  /\ ntfy = "posting"
  /\ \E c \in Callers : pc[c] = "notify"

(***************************************************************************)
(* The process under the scheduling its environment gives it: setInterval  *)
(* keeps calling performCheck, every request of an adapter and of a        *)
(* channel is answered or fails in the end, and a continuation that can    *)
(* run does run.                                                           *)
(***************************************************************************)
Fairness ==
  /\ WF_vars(TimerTick)
  /\ WF_vars(\E c \in Callers : \E resp \in ApiAnswersBasic[lastEtag] : ApiSettles(c, resp))
  /\ WF_vars(\E c \in Callers : \E pages \in WebInputs : WebSettles(c, pages))
  /\ WF_vars(\E c \in Callers : \E resp \in HnInputs : HnSettles(c, resp))
  /\ WF_vars(\E c \in Callers : \E feeds \in GitHubInputsNoMatch : GitHubSettles(c, feeds))
  /\ WF_vars(\E c \in Callers : AfterAggregate(c))
  /\ WF_vars(\E ok \in BOOLEAN : PushLoads(ok))
  /\ WF_vars(\E e \in Endpoints : \E code \in {0, 410, 404, 500} : \E removed \in BOOLEAN :
               PushSends(e, code, removed))
  /\ WF_vars(\E ok \in BOOLEAN : NtfyPosts(ok))
  /\ WF_vars(\E c \in Callers : AfterNotify(c))

\* The steps of the timer's and of POST /check's performCheck; the clock
\* stands still.
NextLive ==
  \/ TimerTick
  \/ PostCheck
  \/ \E c \in Callers : \E resp \in ApiAnswersBasic[lastEtag] : ApiSettles(c, resp)
  \/ \E c \in Callers : \E pages \in WebInputs : WebSettles(c, pages)
  \/ \E c \in Callers : \E resp \in HnInputs : HnSettles(c, resp)
  \/ \E c \in Callers : \E feeds \in GitHubInputsNoMatch : GitHubSettles(c, feeds)
  \/ \E c \in Callers : AfterAggregate(c)
  \/ \E ok \in BOOLEAN : PushLoads(ok)
  \/ \E e \in Endpoints : \E code \in {0, 410, 404, 500} : \E removed \in BOOLEAN :
        PushSends(e, code, removed)
  \/ \E ok \in BOOLEAN : NtfyPosts(ok)
  \/ \E c \in Callers : AfterNotify(c)

SpecLive == Init /\ [][NextLive]_vars /\ Fairness

\* Every aggregator run that is about to return returns found.
EveryRunFinds ==
  \A c \in Callers :
     pc[c] = "aggregate" /\ AllFulfilled(c) => checkAllSources(c).found

\* C29: under Fairness checks start and complete again and again, and if
\* from some point on every aggregator run yields found, the snapshot says
\* found and the notifier has been called at some point.
ChecksKeepCompleting ==
  /\ []<>isChecking
  /\ []<>(~isChecking)
  /\ <>[]EveryRunFinds => <>(lastStatus.found /\ notifyCalls >= 1)

\* A check that found the model has completed, notification included.
FoundCheckCompleted ==
  /\ ~isChecking
  /\ \A c \in Callers : pc[c] = "idle"
  /\ lastStatus.found
  /\ foundHistory = "found"
  /\ notifyCalls = 1
  /\ attempts = [push |-> 1, ntfy |-> 1]
  /\ ntfy = "idle"

\* The state a dropped call must leave alone: snapshot, flags, cache, the
\* check in flight and its promises, the notifier and the subscriptions.
DropFrame ==
  << lastStatus, isChecking, previouslyFound, notificationSent, lastEtag, lastApiResult,
     pc, reqAt, promise, result, push, ntfy, notifyWaiter, attempts, notifyCalls,
     foundHistory, subs, now >>

\* C30: a call of performCheck made while a check is in flight (by the timer,
\* POST /check or an accepted POST /trigger) changes nothing: the snapshot,
\* previouslyFound, notificationSent, the ETag cache and isChecking, which
\* stays true, are as they were, and so is the check in flight.
DroppedCallChangesNothing ==
  [][/\ \A c \in {"check", "trigger"} :
           pc[c] = "idle" /\ sent'.to = c /\ sent'.code = 200 =>
              /\ isChecking /\ isChecking'
              /\ sent'.body = lastStatus
              /\ UNCHANGED DropFrame
     /\ isChecking /\ TimerTick => isChecking' /\ UNCHANGED DropFrame]_vars

\* A POST /check was dropped while the check in flight, which has already
\* renewed the ETag cache, is still waiting for its adapters.
DroppedWhileCacheRenewed ==
  /\ sent.to = "check"
  /\ sent.code = 200
  /\ ~sent.ran
  /\ isChecking
  /\ lastEtag # Null
  /\ \E c \in Callers : pc[c] = "aggregate" /\ ~AllFulfilled(c)

\* A result or snapshot with found = false names neither a model nor a source.
BlankUnlessFound(r) == ~r.found => r.model = Null /\ r.source = Null

\* C31: in every reachable state the snapshot, held or sent, has model and
\* source null when found is false, and so have the results it is written
\* from: the cached result of the Structured-API adapter, which a 304 answer
\* replays, the adapters' promises and the aggregate.
SnapshotBlankUnlessFound ==
  /\ \A i \in 1..4 : \A r \in AdapterResults[i] : BlankUnlessFound(r)
  /\ BlankUnlessFound(lastStatus)
  /\ BlankUnlessFound(sent.body)
  /\ BlankUnlessFound(lastApiResult)
  /\ \A c \in Callers :
        /\ BlankUnlessFound(result[c])
        /\ \A i \in Adapters : BlankUnlessFound(promise[c][i].value)

\* After a check that had found the model, a later check, run with a cached
\* catalog without a match, has written a snapshot that says not found.
NotFoundAfterFound ==
  /\ foundHistory = "reverted"
  /\ lastStatus = Snapshot(NotFound, MaxTime)
  /\ lastEtag = "etag-a"
  /\ lastApiResult = NotFound
  /\ ~isChecking

\* ---------------------------------------------------------------------------
\* The push hook of the page (usePushNotifications) against the push routes.

\* Everything of the backend but the subscription store.
server ==
  << config, classified, scraped, polled, now, scheduler, cache, notifier, calls,
     history, sent >>

\* An awaited promise that resolved.
Resolved == [kind |-> "resolved", message |-> Null]

\* What a rejected promise throws: an Error with a message, or another value.
Thrown ==
  { [kind |-> "Error", message |-> "Failed to fetch"],
    [kind |-> "other", message |-> Null] }

\* How an awaited promise settles.
Settlements == Thrown \cup {Resolved}

\* new Error(message)
Failure(message) == [kind |-> "Error", message |-> message]

\* err instanceof Error ? err.message : fallback
ErrorText(err, fallback) == IF err.kind = "Error" THEN err.message ELSE fallback

\* How a fetch to a push route ends: the route answered 2xx ("ok"), the route
\* answered with an error status ("refused"), the request never reached the
\* backend ("unreachable"), or the route ran and its answer was lost ("lost").
\* The last two reject the fetch.
Answers == {"ok", "refused", "unreachable", "lost"}

Rejects(answer) == answer \in {"unreachable", "lost"}

\* The hook's call has returned.
Returned(failed) == [call EXCEPT !.at = "done", !.failed = failed]

\* notifications.ts: the document of the endpoint is written.
saveSubscription(store, endpoint) == store \cup {endpoint}

\* notifications.ts: the document of the endpoint is deleted.
removeSubscription(store, endpoint) == store \ {endpoint}

\* checkState up to its first await.
CheckState ==
  /\ call.op = "checkState" /\ call.at = "start"
  /\ IF ~supported
       THEN state' = "unsupported" /\ call' = Returned(FALSE)
       ELSE IF permission = "denied"
         THEN state' = "denied" /\ call' = Returned(FALSE)
         ELSE state' = state /\ call' = HookCall("checkState", "ready", permission, FALSE)
  /\ UNCHANGED << server, subs, supported, permission, subscription, error >>

\* checkState resumes from serviceWorker.ready or from getSubscription(); err
\* is what the awaited promise threw, Resolved if it resolved.
CheckStateResumes(err) ==
  /\ call.op = "checkState" /\ call.at \in {"ready", "getSubscription"}
  /\ IF err # Resolved
       THEN state' = "prompt" /\ call' = Returned(TRUE)
       ELSE IF call.at = "ready"
         THEN state' = state /\ call' = [call EXCEPT !.at = "getSubscription"]
         ELSE /\ state' = IF subscription # Null THEN "subscribed"
                          ELSE IF call.local = "granted" THEN "unsubscribed"
                          ELSE "prompt"
              /\ call' = Returned(FALSE)
  /\ UNCHANGED << server, subs, supported, permission, subscription, error >>

\* The catch block of subscribe.
SubscribeCaught(err) ==
  /\ error' = ErrorText(err, "Subscription failed")
  /\ state' = "prompt"
  /\ call' = Returned(TRUE)

\* The Enable button calls subscribe(), which runs up to register().
Subscribe ==
  /\ state \in {"prompt", "unsubscribed"}
  /\ state' = "loading"
  /\ error' = Null
  /\ call' = HookCall("subscribe", "register", Null, FALSE)
  /\ UNCHANGED << server, subs, supported, permission, subscription >>

\* subscribe resumes from register(), serviceWorker.ready or json().
SubscribeAwaits(err) ==
  /\ call.op = "subscribe" /\ call.at \in {"register", "ready", "json"}
  /\ IF err # Resolved
       THEN SubscribeCaught(err)
       ELSE /\ call' = [call EXCEPT !.at = CASE call.at = "register" -> "ready"
                                            [] call.at = "ready" -> "key"
                                            [] call.at = "json" -> "pushSubscribe"]
            /\ UNCHANGED << state, error >>
  /\ UNCHANGED << server, subs, supported, permission, subscription >>

\* subscribe resumes from the fetch of /push/vapid-public-key, which answers
\* 503 only without a public key.
SubscribeKey(answer, err) ==
  /\ call.op = "subscribe" /\ call.at = "key"
  /\ answer # "lost"
  /\ answer = "refused" => ~vapidSet
  /\ Rejects(answer) <=> err # Resolved
  /\ CASE answer = "ok" -> call' = [call EXCEPT !.at = "json"] /\ UNCHANGED << state, error >>
       [] answer = "refused" -> SubscribeCaught(Failure("Failed to get VAPID key"))
       [] answer = "unreachable" -> SubscribeCaught(err)
  /\ UNCHANGED << server, subs, supported, permission, subscription >>

\* subscribe resumes from pushManager.subscribe(): the browser hands out its
\* subscription, a new one with endpoint e if it has none, or refuses, the
\* user having blocked notifications or not.
SubscribePush(err, e, blocked) ==
  /\ call.op = "subscribe" /\ call.at = "pushSubscribe"
  /\ IF err # Resolved
       THEN /\ permission' = IF permission = "default" /\ blocked THEN "denied"
                             ELSE permission
            /\ subscription' = subscription
            /\ SubscribeCaught(err)
       ELSE /\ permission' = "granted"
            /\ subscription' = IF subscription # Null THEN subscription ELSE e
            /\ call' = [call EXCEPT !.at = "post", !.local = subscription']
            /\ UNCHANGED << state, error >>
  /\ UNCHANGED << server, subs, supported >>

\* subscribe resumes from the POST of /push/subscribe; the route saves the
\* subscription and answers, or answers 500 when the save throws.
SubscribePost(answer, err) ==
  /\ call.op = "subscribe" /\ call.at = "post"
  /\ Rejects(answer) <=> err # Resolved
  /\ subs' = IF answer \in {"ok", "lost"} THEN saveSubscription(subs, call.local)
             ELSE subs
  /\ CASE answer = "ok" -> state' = "subscribed" /\ error' = error /\ call' = Returned(FALSE)
       [] answer = "refused" -> SubscribeCaught(Failure("Failed to save subscription"))
       [] Rejects(answer) -> SubscribeCaught(err)
  /\ UNCHANGED << server, supported, permission, subscription >>

\* The catch block of unsubscribe.
UnsubscribeCaught(err) ==
  /\ error' = ErrorText(err, "Unsubscribe failed")
  /\ state' = "subscribed"
  /\ call' = Returned(TRUE)

\* The Enabled button calls unsubscribe(), which runs up to serviceWorker.ready.
Unsubscribe ==
  /\ state = "subscribed"
  /\ state' = "loading"
  /\ error' = Null
  /\ call' = HookCall("unsubscribe", "ready", Null, FALSE)
  /\ UNCHANGED << server, subs, supported, permission, subscription >>

\* unsubscribe resumes from serviceWorker.ready or from getSubscription().
UnsubscribeAwaits(err) ==
  /\ call.op = "unsubscribe" /\ call.at \in {"ready", "getSubscription"}
  /\ IF err # Resolved
       THEN UnsubscribeCaught(err)
       ELSE IF call.at = "ready"
         THEN call' = [call EXCEPT !.at = "getSubscription"] /\ UNCHANGED << state, error >>
         ELSE IF subscription = Null
           THEN state' = "unsubscribed" /\ error' = error /\ call' = Returned(FALSE)
           ELSE /\ call' = [call EXCEPT !.at = "delete", !.local = subscription]
                /\ UNCHANGED << state, error >>
  /\ UNCHANGED << server, subs, supported, permission, subscription >>

\* unsubscribe resumes from the DELETE of /push/subscribe; the route removes
\* the subscription and answers, or answers 500 when the removal throws. The
\* answer's status is not read.
UnsubscribeDelete(answer, err) ==
  /\ call.op = "unsubscribe" /\ call.at = "delete"
  /\ Rejects(answer) <=> err # Resolved
  /\ subs' = IF answer \in {"ok", "lost"} THEN removeSubscription(subs, call.local)
             ELSE subs
  /\ IF Rejects(answer)
       THEN UnsubscribeCaught(err)
       ELSE /\ call' = [call EXCEPT !.at = "unsubscribe", !.failed = (answer = "refused")]
            /\ UNCHANGED << state, error >>
  /\ UNCHANGED << server, supported, permission, subscription >>

\* unsubscribe resumes from subscription.unsubscribe().
UnsubscribeBrowser(err) ==
  /\ call.op = "unsubscribe" /\ call.at = "unsubscribe"
  /\ IF err # Resolved
       THEN subscription' = subscription /\ UnsubscribeCaught(err)
       ELSE /\ subscription' = Null
            /\ state' = "unsubscribed"
            /\ error' = error
            /\ call' = Returned(call.failed)
  /\ UNCHANGED << server, subs, supported, permission >>

\* The page is loaded again: the hook's call in flight is gone and the
\* component mounts anew.
Reload ==
  /\ call # Mounting
  /\ state' = "loading"
  /\ error' = Null
  /\ call' = Mounting
  /\ UNCHANGED << server, subs, supported, permission, subscription >>

\* The page in a browser that holds no push subscription, and an empty store.
InitHook ==
  /\ apiKeySet = TRUE
  /\ vapidSet \in BOOLEAN
  /\ now = 0
  /\ lastStatus = Snapshot(NotFound, 0)
  /\ isChecking = FALSE
  /\ previouslyFound = FALSE
  /\ lastEtag = Null
  /\ lastApiResult = NotFound
  /\ notificationSent = FALSE
  /\ subs = {}
  /\ pc = [c \in Callers |-> "idle"]
  /\ reqAt = [c \in Callers |-> 0]
  /\ promise = [c \in Callers |-> NoPromises]
  /\ result = [c \in Callers |-> NotFound]
  /\ push = PushIdle
  /\ ntfy = "idle"
  /\ notifyWaiter = Null
  /\ sent = NoResponse
  /\ attempts = [push |-> 0, ntfy |-> 0]
  /\ notifyCalls = 0
  /\ foundHistory = "never"
  /\ classified = Unclassified(<< >>)
  /\ scraped = Unscraped(<< PageDown, PageDown, PageDown >>)
  /\ polled = Unpolled(<< Feed(FeedDown, FeedDown), Feed(FeedDown, FeedDown) >>)
  /\ supported \in BOOLEAN
  /\ permission \in {"default", "granted", "denied"}
  /\ subscription = Null
  /\ state = "loading"
  /\ error = Null
  /\ call = Mounting

NextHook ==
  \/ CheckState
  \/ \E err \in Settlements : CheckStateResumes(err)
  \/ Subscribe
  \/ \E err \in Settlements : SubscribeAwaits(err)
  \/ \E answer \in Answers, err \in Settlements : SubscribeKey(answer, err)
  \/ \E err \in Settlements, e \in Endpoints, blocked \in BOOLEAN :
        SubscribePush(err, e, blocked)
  \/ \E answer \in Answers, err \in Settlements : SubscribePost(answer, err)
  \/ Unsubscribe
  \/ \E err \in Settlements : UnsubscribeAwaits(err)
  \/ \E answer \in Answers, err \in Settlements : UnsubscribeDelete(answer, err)
  \/ \E err \in Settlements : UnsubscribeBrowser(err)
  \/ Reload

SpecHook == InitHook /\ [][NextHook]_vars

\* C32: a subscribe() or unsubscribe() call that has finished has left the
\* state out of "loading": subscribe in "subscribed" if nothing it called
\* failed and in "prompt" with an error message otherwise, unsubscribe in
\* "unsubscribed" if nothing it called failed and in "subscribed" with an
\* error message otherwise.
HookCallsSettle ==
  call.at = "done" =>
    /\ state # "loading"
    /\ call.op = "subscribe" =>
         IF call.failed THEN state = "prompt" /\ error # Null
         ELSE state = "subscribed"
    /\ call.op = "unsubscribe" =>
         IF call.failed THEN state = "subscribed" /\ error # Null
         ELSE state = "unsubscribed"

\* C33: whenever the hook's state is "subscribed", the subscription store of
\* the backend holds the endpoint of the browser's current push subscription.
SubscribedMeansStored == state = "subscribed" => subscription \in subs

====
